---------------------------- MODULE Spec2Model ----------------------------
(***************************************************************************)
(* A model of the terminal server: the session store                       *)
(* (session_manager.py, and the module-level tables of flask_server.py),   *)
(* the container pool allocator (container_pool.py), the command           *)
(* execution engines (flask_server.py, terminal_command_handler.py) and    *)
(* the path containment check of the file operations.                      *)
(*                                                                         *)
(* Each subsystem has its own specification over the shared variables:     *)
(*   SpecPool   container_pool.py                                          *)
(*   SpecPath   the path containment check of the file operations          *)
(*   SpecManager session_manager.py behind the session routes of           *)
(*              enhanced_flask_server.py                                   *)
(*   SpecStore  session_manager.py and terminal_command_handler.py behind  *)
(*              the routes of enhanced_flask_server.py                     *)
(*   SpecFlaskTable the session tables of flask_server.py                  *)
(*   SpecFlask  the session tables and the command routes of               *)
(*              flask_server.py                                            *)
(* The variables a specification does not use keep their initial value.    *)
(***************************************************************************)
EXTENDS Integers, Sequences, FiniteSets, TLC

VARIABLES
    \* ---- container_pool.py: ContainerPool
    containers,       \* self.containers: the list of container ids of the pool
    user_map,         \* self.user_map: user id -> [cid, username]
    docker,           \* the docker daemon: existing container id -> status
    nextCid,          \* the id docker gives the next container it creates
    multi_container_mode, \* self.multi_container_mode
    max_containers,   \* self.max_containers
    users_per_container, \* self.users_per_container
    resolved,         \* per user, what the last get_container_for_user returned
    repeated,         \* the user of the last step, if that step was a call of
                      \* get_container_for_user that returned the pair its call
                      \* before had returned; else 0
    faulted,          \* whether docker has failed the pool so far (a container
                      \* stopped or vanished, a restart or a creation failed)
    creation,         \* how _create_new_container failed in the last step, if
                      \* it did: [kind, user], kind "fallback" or "raised"
    linux_users,      \* the accounts create-user.sh has made in the containers
                      \* docker knows: a set of [cid, username, userid]
    \* ---- the path containment check of a file operation
    pathHome,         \* session['home_dir'] of the request
    pathInput,        \* the path the request names
    pathCheck,        \* the outcome of the check: [by, target, accepted]
    \* ---- the session store and the execution engines
    now,              \* time.time(), in units of the session timeout
    sessions,         \* sessions: session id -> [user_id, last_accessed]
    user_sessions,    \* user_sessions: user id -> session id
    dirs,             \* the session ids whose home directory exists on disk
    saved,            \* sessions.json: [sessions, user_sessions]
    procs,            \* the processes the engines have spawned:
                      \* pid -> [sid, status, waiter, renewed]
    processes,        \* TerminalCommandHandler.processes: session id -> pid
    running_processes, \* flask_server.running_processes: session id -> pid
    socket_processes, \* flask_server.socket_processes: session id -> pid
    nextSid,          \* the next fresh session id (uuid4)
    nextPid,          \* the pid of the next spawned process
    ev,               \* what the last step did and answered
    started,          \* whether SessionManager.__init__ has returned
    cleanup_timer,    \* whether the threading.Timer that runs cleanup_sessions
                      \* of flask_server.py is pending
    reaper_save,      \* _save_sessions() as called by the cleanup thread of
                      \* SessionManager outside the lock: where it stands and
                      \* its serializable_sessions
    \* ---- the preparation of a command in execute_command of flask_server.py
    cmdText,          \* the command of the request, character by character
    cmdVerdict,       \* what became of it: [python, command, kind]
    \* ---- the session pool of flask_server.py
    session_pool,     \* session_pool: the list of slots [session_id, created]
    setup_done,       \* the session ids whose setup_user_environment thread,
                      \* started by initialize_session_pool, has finished
    pool_clock,       \* time.time(), in units of the 30 s between two runs of
                      \* the timer of initialize_session_pool
    refilled,         \* whether the timer has run at this reading of the clock
    refill_pending,   \* whether a thread started by create_session has yet to
                      \* run initialize_session_pool
    pool_timers,      \* the number of pending threading.Timer objects that
                      \* will run initialize_session_pool
    \* ---- the file commands of terminal_command_handler.py
    files,            \* the files below the home directory: path -> content
    fileEv            \* the last file command: what it meant and what it did

poolConfig == <<multi_container_mode, max_containers, users_per_container>>

poolVars == <<containers, user_map, docker, nextCid, poolConfig,
              resolved, repeated, faulted, creation, linux_users>>

pathVars == <<pathHome, pathInput, pathCheck>>

tableVars == <<sessions, user_sessions, dirs, saved, nextSid>>

procVars == <<procs, processes, running_processes, socket_processes, nextPid>>

startVars == <<started, cleanup_timer, reaper_save>>

\* the variables only the specifications of start-up, of the session pool
\* and of the output streams use
wrapVars == <<cmdText, cmdVerdict>>

slotVars == <<session_pool, setup_done, pool_clock, refilled, refill_pending,
              pool_timers>>

fileVars == <<files, fileEv>>

otherVars == <<startVars, wrapVars, slotVars, fileVars>>

sessVars == <<now, tableVars, procVars, ev, otherVars>>

vars == <<poolVars, pathVars, sessVars>>

-----------------------------------------------------------------------------
(* Bounds of the model *)

NumUsers == 3
MaxCreated == 3
MaxCfgContainers == 2
MaxCfgUsersPer == 2
NumMultiUsers == 4
MaxMultiContainers == 3
MaxPathLen == 5
NumClients == 2
MaxSessions == 2
MaxEngineSessions == 1
NumEngineClients == 1
MaxProcs == 2
MaxTime == 2
MaxFragments == 3
MaxPoolSlots == 1
MaxPoolSessions == 2
MaxPoolTime == 61
MaxContentLen == 2
MaxFileLen == 2
MaxFiles == 2
MaxPoolTimers == 3

-----------------------------------------------------------------------------
(* Small helpers *)

Range(s) == {s[i] : i \in 1..Len(s)}

None == "none"

-----------------------------------------------------------------------------
(***************************************************************************)
(* container_pool.py                                                       *)
(***************************************************************************)

Users == 1..NumUsers

UsernameMod == 10000

UseridBase == 2000

UseridMod == 8000

\* int(hashlib.md5(user_id.encode()).hexdigest(), 16) for the user id whose
\* text is the decimal numeral of u. The table holds the digest modulo 40000,
\* the least common multiple of the two moduli the pool reduces it by, so both
\* remainders are those of the full digest.
Md5(u) ==
    CASE u = 1 -> 8411
      [] u = 2 -> 39212
      [] u = 3 -> 883
      [] u = 4 -> 1900
      [] u = 5 -> 20693
      [] u = 6 -> 412
      [] u = 17 -> 18747
      [] u = 29 -> 38747
      [] u = 82 -> 3548
      [] u = 97 -> 3548

\* f"user{int(md5(user_id), 16) % 10000}"
Username(u) == Md5(u) % UsernameMod

\* userid = 2000 + (int(md5(user_id), 16) % 8000)
Userid(u) == UseridBase + (Md5(u) % UseridMod)

NoPair == [cid |-> 0, username |-> 0 - 1]

\* _create_new_container did not fail in the last step
NoFailure == [kind |-> "none", user |-> 0]

\* container_counts: for every container of the list, the users mapped to it
ContainerCounts(conts, umap) ==
    [c \in Range(conts) |-> Cardinality({u \in DOMAIN umap : umap[u].cid = c})]

\* The first element of a non-empty sequence with the least key, as Python's min()
MinBy(seq, key) ==
    LET best == CHOOSE i \in 1..Len(seq) :
                   /\ \A j \in 1..Len(seq) : key[seq[i]] <= key[seq[j]]
                   /\ \A j \in 1..(i - 1) : key[seq[j]] > key[seq[i]]
    IN  seq[best]

\* _create_new_container recording the id of the container that docker did not
\* create
CreateNewContainerAppendingAnyway(conts, dock, next, createOK) ==
    IF createOK
    THEN [raised |-> FALSE, cid |-> next, containers |-> Append(conts, next),
          docker |-> [c \in (DOMAIN dock) \cup {next} |->
                         IF c = next THEN "running" ELSE dock[c]],
          nextCid |-> next + 1, createFailed |-> FALSE]
    ELSE [raised |-> FALSE, cid |-> next, containers |-> Append(conts, next),
          docker |-> dock, nextCid |-> next + 1, createFailed |-> TRUE]

\* _create_new_container: docker runs a new container and the pool appends its id;
\* when docker fails, the first container of the list if there is one, else the
\* exception is re-raised.
CreateNewContainer(conts, dock, next, createOK) ==
    IF createOK
    THEN [raised |-> FALSE, cid |-> next, containers |-> Append(conts, next),
          docker |-> [c \in (DOMAIN dock) \cup {next} |->
                         IF c = next THEN "running" ELSE dock[c]],
          nextCid |-> next + 1, createFailed |-> FALSE]
    ELSE IF conts # <<>>
    THEN [raised |-> FALSE, cid |-> conts[1], containers |-> conts,
          docker |-> dock, nextCid |-> next, createFailed |-> TRUE]
    ELSE [raised |-> TRUE, cid |-> 0, containers |-> conts,
          docker |-> dock, nextCid |-> next, createFailed |-> TRUE]

\* The cap compared with <= instead of <
BelowMaxOffByOne(conts, maxc) == Len(conts) <= maxc

\* len(self.containers) < self.max_containers
BelowMax(conts, maxc) == Len(conts) < maxc

\* _find_available_container applying users_per_container in
\* single-container mode too
FindAvailableContainerCapped(conts, umap, dock, next, multi, maxc, perc, restartOK, createOK) ==
    LET counts == ContainerCounts(conts, umap)
        Alive(c) == /\ c \in DOMAIN dock
                    /\ (dock[c] = "running" \/ c \in restartOK)
        active == SelectSeq(conts, Alive)
        conts1 == SelectSeq(conts, Alive)
        dock1 == [c \in DOMAIN dock |->
                    IF c \in Range(conts) /\ c \in restartOK THEN "running" ELSE dock[c]]
        HasSpace(c) == counts[c] < perc
        available == SelectSeq(active, HasSpace)
        Use(c) == [raised |-> FALSE, cid |-> c, containers |-> conts1,
                   docker |-> dock1, nextCid |-> next, createFailed |-> FALSE]
        created == CreateNewContainer(conts1, dock1, next, createOK)
    IN  IF ~multi
        THEN IF available # <<>> THEN Use(available[1]) ELSE created
        ELSE IF available # <<>> THEN Use(MinBy(available, counts))
        ELSE IF BelowMax(conts1, maxc) THEN created
        ELSE IF active # <<>> THEN Use(MinBy(active, counts))
        ELSE created

\* _find_available_container. restartOK: the stopped containers whose restart
\* succeeds; createOK: whether docker can run a new container.
FindAvailableContainer(conts, umap, dock, next, multi, maxc, perc, restartOK, createOK) ==
    LET counts == ContainerCounts(conts, umap)
        Alive(c) == /\ c \in DOMAIN dock
                    /\ (dock[c] = "running" \/ c \in restartOK)
        active == SelectSeq(conts, Alive)
        \* a container whose check raised is removed from self.containers
        conts1 == SelectSeq(conts, Alive)
        dock1 == [c \in DOMAIN dock |->
                    IF c \in Range(conts) /\ c \in restartOK THEN "running" ELSE dock[c]]
        HasSpace(c) == counts[c] < perc
        available == SelectSeq(active, HasSpace)
        Use(c) == [raised |-> FALSE, cid |-> c, containers |-> conts1,
                   docker |-> dock1, nextCid |-> next, createFailed |-> FALSE]
        created == CreateNewContainer(conts1, dock1, next, createOK)
    IN  IF ~multi
        THEN IF active # <<>> THEN Use(active[1]) ELSE created
        ELSE IF available # <<>> THEN Use(MinBy(available, counts))
        ELSE IF BelowMax(conts1, maxc) THEN created
        ELSE IF active # <<>> THEN Use(MinBy(active, counts))
        ELSE created

\* The lookup taking a stopped container for a missing one
AlreadyAssignedRunningOnly(u, umap, dock) ==
    /\ u \in DOMAIN umap
    /\ umap[u].cid \in DOMAIN dock
    /\ dock[umap[u].cid] = "running"

\* get_container_for_user, the lookup of an existing assignment: the user is
\* mapped and docker still knows the container
AlreadyAssigned(u, umap, dock) ==
    /\ u \in DOMAIN umap
    /\ umap[u].cid \in DOMAIN dock

\* _create_user_in_container: create-user.sh run as root in the container with
\* the username and the userid derived from the user id. userOK: the container
\* was found and the script left with exit code 0, and the account is there;
\* otherwise the method logs the error and returns False.
CreateUserInContainer(accounts, cid, u, userOK) ==
    IF userOK
    THEN accounts \cup {[cid |-> cid, username |-> Username(u), userid |-> Userid(u)]}
    ELSE accounts

\* user_map without user u
DropUser(umap, u) == [v \in (DOMAIN umap) \ {u} |-> umap[v]]

\* user_map with u assigned
Assign(umap, u, pair) ==
    [v \in (DOMAIN umap) \cup {u} |-> IF v = u THEN pair ELSE umap[v]]

\* get_container_for_user(user_id), under self.lock
GetContainerForUser(u) ==
    IF AlreadyAssigned(u, user_map, docker)
    THEN /\ resolved' = [resolved EXCEPT ![u] = user_map[u]]
         /\ repeated' = IF resolved[u] # NoPair /\ user_map[u] = resolved[u] THEN u ELSE 0
         /\ creation' = NoFailure
         /\ UNCHANGED <<containers, user_map, docker, nextCid, faulted, linux_users>>
    ELSE LET stopped == {c \in Range(containers) :
                            c \in DOMAIN docker /\ docker[c] # "running"}
         IN  \E restartOK \in SUBSET stopped, createOK \in BOOLEAN :
               LET umap1 == \* del self.user_map[user_id]
                            IF u \in DOMAIN user_map THEN DropUser(user_map, u)
                                                      ELSE user_map
                   found == FindAvailableContainer(containers, umap1, docker, nextCid,
                                multi_container_mode, max_containers,
                                users_per_container, restartOK, createOK)
               IN  /\ createOK => nextCid <= MaxCreated
                   /\ containers' = found.containers
                   /\ docker' = found.docker
                   /\ nextCid' = found.nextCid
                   /\ faulted' = (faulted \/ restartOK # stopped \/ found.createFailed)
                   /\ creation' = IF ~found.createFailed THEN NoFailure
                                  ELSE [kind |-> IF found.raised THEN "raised"
                                                 ELSE "fallback",
                                        user |-> u]
                   /\ IF found.raised
                      THEN /\ user_map' = umap1
                           /\ resolved' = [resolved EXCEPT ![u] = NoPair]
                           /\ UNCHANGED linux_users
                      ELSE LET pair == [cid |-> found.cid, username |-> Username(u)]
                           IN  \* the value _create_user_in_container returns
                               \* is not looked at
                               /\ \E userOK \in BOOLEAN :
                                     /\ userOK => found.cid \in DOMAIN found.docker
                                     /\ linux_users' = CreateUserInContainer(
                                            linux_users, found.cid, u, userOK)
                               /\ user_map' = Assign(umap1, u, pair)
                               /\ resolved' = [resolved EXCEPT ![u] = pair]
                   /\ repeated' = IF resolved[u] # NoPair /\ resolved'[u] = resolved[u] THEN u ELSE 0

Resolve ==
    \E u \in Users : GetContainerForUser(u) /\ UNCHANGED <<poolConfig, pathVars, sessVars>>

\* The docker daemon: a running container stops
ContainerStops ==
    \E c \in DOMAIN docker :
        /\ docker[c] = "running"
        /\ docker' = [docker EXCEPT ![c] = "exited"]
        /\ faulted' = TRUE
        /\ repeated' = 0
        /\ creation' = NoFailure
        /\ UNCHANGED <<containers, user_map, nextCid, poolConfig, resolved,
                       linux_users, pathVars, sessVars>>

\* The docker daemon: a container is removed
ContainerRemoved ==
    \E c \in DOMAIN docker :
        /\ docker' = [d \in (DOMAIN docker) \ {c} |-> docker[d]]
        \* its accounts go with its filesystem
        /\ linux_users' = {a \in linux_users : a.cid # c}
        /\ faulted' = TRUE
        /\ repeated' = 0
        /\ creation' = NoFailure
        /\ UNCHANGED <<containers, user_map, nextCid, poolConfig, resolved, pathVars, sessVars>>

PoolInit ==
    /\ containers = <<>>
    /\ user_map = [u \in {} |-> NoPair]
    /\ docker = [c \in {} |-> "running"]
    /\ nextCid = 1
    /\ multi_container_mode \in BOOLEAN
    /\ max_containers \in 1..MaxCfgContainers
    /\ users_per_container \in 1..MaxCfgUsersPer
    /\ resolved = [u \in Users |-> NoPair]
    /\ repeated = 0
    /\ faulted = FALSE
    /\ creation = NoFailure
    /\ linux_users = {}

PoolNext == Resolve \/ ContainerStops \/ ContainerRemoved

\* The pool in multi-container mode (MULTI_CONTAINER_MODE set), with more
\* users and a larger max_containers
MultiUsers == 1..NumMultiUsers

ResolveMulti ==
    \E u \in MultiUsers :
        GetContainerForUser(u) /\ UNCHANGED <<poolConfig, pathVars, sessVars>>

PoolInitMulti ==
    /\ containers = <<>>
    /\ user_map = [u \in {} |-> NoPair]
    /\ docker = [c \in {} |-> "running"]
    /\ nextCid = 1
    /\ multi_container_mode = TRUE
    /\ max_containers \in 1..MaxMultiContainers
    /\ users_per_container \in 1..MaxCfgUsersPer
    /\ resolved = [u \in MultiUsers |-> NoPair]
    /\ repeated = 0
    /\ faulted = FALSE
    /\ creation = NoFailure
    /\ linux_users = {}

PoolMultiNext == ResolveMulti \/ ContainerStops \/ ContainerRemoved

\* The pool serving users whose ids the client chose: "17" and "29" have the
\* same digest modulo 10000, "82" and "97" the same digest modulo 40000
HashUsers == {17, 29, 82, 97}

ResolveHash ==
    \E u \in HashUsers :
        GetContainerForUser(u) /\ UNCHANGED <<poolConfig, pathVars, sessVars>>

PoolInitHash ==
    /\ containers = <<>>
    /\ user_map = [u \in {} |-> NoPair]
    /\ docker = [c \in {} |-> "running"]
    /\ nextCid = 1
    /\ multi_container_mode \in BOOLEAN
    /\ max_containers \in 1..MaxCfgContainers
    /\ users_per_container \in 1..MaxCfgUsersPer
    /\ resolved = [u \in HashUsers |-> NoPair]
    /\ repeated = 0
    /\ faulted = FALSE
    /\ creation = NoFailure
    /\ linux_users = {}

PoolHashNext == ResolveHash \/ ContainerStops \/ ContainerRemoved

-----------------------------------------------------------------------------
(***************************************************************************)
(* Path containment: secure_file_access (flask_server.py), download_file   *)
(* and the other endpoints of file_management.py, and the cat/echo         *)
(* operations of terminal_command_handler.py.  A path is the sequence of   *)
(* its characters.                                                         *)
(***************************************************************************)

PathChars == {"a", "b", "/", "."}

\* The home directories of two sessions, user_data/<id>: "u/a" and "u/ab"
HomeDirs == {<<"u", "/", "a">>, <<"u", "/", "a", "b">>}

RECURSIVE SeqsUpTo(_)
SeqsUpTo(n) ==
    IF n = 0 THEN {<<>>}
    ELSE LET shorter == SeqsUpTo(n - 1)
         IN  shorter \cup {Append(q, c) : q \in {r \in shorter : Len(r) = n - 1},
                                            c \in PathChars}

PathInputs == SeqsUpTo(MaxPathLen)

\* str.startswith
StartsWith(str, prefix) ==
    /\ Len(prefix) <= Len(str)
    /\ SubSeq(str, 1, Len(prefix)) = prefix

\* str.split('/'): the components between the slashes, empty ones included
RECURSIVE SplitSlash(_)
SplitSlash(str) ==
    IF \A i \in 1..Len(str) : str[i] # "/"
    THEN <<str>>
    ELSE LET k == CHOOSE i \in 1..Len(str) :
                     str[i] = "/" /\ \A j \in 1..(i - 1) : str[j] # "/"
         IN  <<SubSeq(str, 1, k - 1)>> \o SplitSlash(SubSeq(str, k + 1, Len(str)))

\* '/'.join(comps)
RECURSIVE JoinSlash(_)
JoinSlash(comps) ==
    IF comps = <<>> THEN <<>>
    ELSE IF Len(comps) = 1 THEN comps[1]
    ELSE comps[1] \o <<"/">> \o JoinSlash(Tail(comps))

\* os.path.join(a, p) of posixpath
OsPathJoin(a, p) ==
    IF StartsWith(p, <<"/">>) THEN p
    ELSE IF a = <<>> \/ a[Len(a)] = "/" THEN a \o p
    ELSE a \o <<"/">> \o p

\* The loop of posixpath.normpath over the components
RECURSIVE NormComps(_, _, _)
NormComps(comps, new_comps, initial_slashes) ==
    IF comps = <<>> THEN new_comps
    ELSE LET comp == Head(comps)
             dotdot == <<".", ".">>
         IN  IF comp = <<>> \/ comp = <<".">>
             THEN NormComps(Tail(comps), new_comps, initial_slashes)
             ELSE IF \/ comp # dotdot
                     \/ (initial_slashes = 0 /\ new_comps = <<>>)
                     \/ (new_comps # <<>> /\ new_comps[Len(new_comps)] = dotdot)
             THEN NormComps(Tail(comps), Append(new_comps, comp), initial_slashes)
             ELSE IF new_comps # <<>>
             THEN NormComps(Tail(comps), SubSeq(new_comps, 1, Len(new_comps) - 1),
                            initial_slashes)
             ELSE NormComps(Tail(comps), new_comps, initial_slashes)

\* os.path.normpath of posixpath
OsPathNormpath(path) ==
    IF path = <<>> THEN <<".">>
    ELSE LET initial_slashes ==
                 IF ~StartsWith(path, <<"/">>) THEN 0
                 ELSE IF StartsWith(path, <<"/", "/">>)
                         /\ ~StartsWith(path, <<"/", "/", "/">>) THEN 2
                 ELSE 1
             joined == JoinSlash(NormComps(SplitSlash(path), <<>>, initial_slashes))
             result == [i \in 1..initial_slashes |-> "/"] \o joined
         IN  IF result = <<>> THEN <<".">> ELSE result

\* No check made yet
NoCheck == [by |-> "none", target |-> <<>>, accepted |-> FALSE]

\* The check of secure_file_access and of the file_management endpoints:
\* target_path = os.path.normpath(os.path.join(base_dir, path)), accepted
\* when target_path.startswith(base_dir)
FileAccessCheck(base_dir, path) ==
    LET target_path == OsPathNormpath(OsPathJoin(base_dir, path))
    IN  [by |-> "files", target |-> target_path,
         accepted |-> StartsWith(target_path, base_dir)]

\* The check of TerminalCommandHandler._handle_file_operations (cat, echo >):
\* a relative path is joined to home_dir, an absolute one is kept
HandlerFileCheck(home_dir, file_arg) ==
    LET joined == IF StartsWith(file_arg, <<"/">>) THEN file_arg
                  ELSE OsPathJoin(home_dir, file_arg)
        normed == OsPathNormpath(joined)
    IN  [by |-> "handler", target |-> normed,
         accepted |-> StartsWith(normed, home_dir)]

\* A request to a /files/ endpoint reaches the check
CheckFileAccess ==
    /\ pathCheck = NoCheck
    /\ pathCheck' = FileAccessCheck(pathHome, pathInput)
    /\ UNCHANGED <<pathHome, pathInput, poolVars, sessVars>>

\* A cat or echo > command reaches the check of the command handler
CheckHandlerFile ==
    /\ pathCheck = NoCheck
    /\ pathInput # <<>>
    /\ pathCheck' = HandlerFileCheck(pathHome, pathInput)
    /\ UNCHANGED <<pathHome, pathInput, poolVars, sessVars>>

PathInit ==
    /\ pathHome \in HomeDirs
    /\ pathInput \in PathInputs
    /\ pathCheck = NoCheck

PathIdle ==
    /\ pathHome = <<"u", "/", "a">>
    /\ pathInput = <<>>
    /\ pathCheck = NoCheck

PathNext == CheckFileAccess \/ CheckHandlerFile

-----------------------------------------------------------------------------
(***************************************************************************)
(* The session store: session_manager.py                                   *)
(*                                                                         *)
(* The operations of SessionManager are operators on the table             *)
(* T = [sessions, user_sessions, dirs, saved]; each runs under             *)
(* self.session_lock.                                                      *)
(***************************************************************************)

\* SESSION_TIMEOUT (3600 s); the clock `now' counts in this unit
SESSION_TIMEOUT == 1

Clients == 1..NumClients
EngineClients == 1..NumEngineClients
SessionIds == 1..MaxSessions
Pids == 1..MaxProcs

\* the commands of the requests to flask_server.py, as their words
FlaskCommands == { <<>>, <<"ls">>, <<"sudo", "ls">>, <<"help">> }

\* What a specification lets its clients do: the users, the number of
\* session ids the server may issue, whether the session pool of
\* flask_server.py may be filled (TRUE), be empty (FALSE), and the userIds
\* the X-Session-Data header of a request may carry (0: no header).
\* The session tables alone are explored in TableScope, the tables together
\* with the processes in the smaller EngineScope.
TableScope == [clients |-> Clients, limit |-> MaxSessions,
               pools |-> BOOLEAN, headers |-> {0} \cup Clients,
               commands |-> FlaskCommands]

EngineScope == [clients |-> EngineClients, limit |-> MaxEngineSessions,
                pools |-> {TRUE}, headers |-> {0},
                commands |-> FlaskCommands]

\* interactive_cmds of execute_command of flask_server.py
InteractiveCmds == {"openssl", "ssh-keygen", "ssh", "pg_dump", "mysql", "passwd", "gpg"}

\* the commands of the requests when the interactive helper is looked at
InteractiveCommands == { <<"ls">>, <<"ssh">> }

InteractiveScope == [EngineScope EXCEPT !.commands = InteractiveCommands]

EmptyMap == [k \in {} |-> 0]

\* the cleanup thread is not saving; `seen' is the pointer table as it
\* was when serializable_sessions was built, kept for comparison only
NoSave == [pc |-> "idle", sessions |-> EmptyMap, seen |-> EmptyMap]

Put(f, k, v) == [x \in (DOMAIN f) \cup {k} |-> IF x = k THEN v ELSE f[x]]

Del(f, k) == [x \in (DOMAIN f) \ {k} |-> f[x]]

DelAll(f, ks) == [x \in (DOMAIN f) \ ks |-> f[x]]

\* f'socket-user-{uuid4}': the user of a session made for a request that
\* names none; a fresh user per session
AnonymousUser(sid) == 0 - sid

Table == [sessions |-> sessions, user_sessions |-> user_sessions,
          dirs |-> dirs, saved |-> saved]

SetTable(T) ==
    /\ sessions' = T.sessions
    /\ user_sessions' = T.user_sessions
    /\ dirs' = T.dirs
    /\ saved' = T.saved

\* current_time - session['last_accessed'] > self.session_timeout
IsExpired(session, t) == t - session.last_accessed > SESSION_TIMEOUT

\* _remove_session(session_id)
RemoveSession(T, sid) ==
    IF sid \in DOMAIN T.sessions
    THEN LET u == T.sessions[sid].user_id
         IN [T EXCEPT !.user_sessions =
                          IF u \in DOMAIN T.user_sessions /\ T.user_sessions[u] = sid
                          THEN Del(T.user_sessions, u) ELSE T.user_sessions,
                      !.sessions = Del(T.sessions, sid)]
    ELSE T

\* _save_sessions(): sessions.json gets the tables as they are
SaveSessions(T) ==
    [T EXCEPT !.saved = [sessions |-> T.sessions, user_sessions |-> T.user_sessions]]

\* create_session(user_id): sid is the fresh uuid4; mkdirOK is whether
\* os.makedirs(home_dir) succeeded
CreateSession(T, sid, u, t, mkdirOK) ==
    IF mkdirOK
    THEN [table |-> SaveSessions(
                      [T EXCEPT !.dirs = T.dirs \cup {sid},
                                !.sessions = Put(T.sessions, sid,
                                                 [user_id |-> u, last_accessed |-> t]),
                                !.user_sessions = Put(T.user_sessions, u, sid)]),
          session |-> sid]
    ELSE [table |-> T, session |-> 0]

\* get_session(session_id): the session returned (0 for None) and the table
GetSession(T, sid, t) ==
    IF sid \notin DOMAIN T.sessions
    THEN [table |-> T, session |-> 0]
    ELSE IF IsExpired(T.sessions[sid], t)
         THEN [table |-> RemoveSession(T, sid), session |-> 0]
         ELSE [table |-> [T EXCEPT !.sessions[sid].last_accessed = t],
               session |-> sid]

\* end_session(session_id, preserve_data)
EndSession(T, sid, preserve_data) ==
    IF sid \notin DOMAIN T.sessions
    THEN [table |-> T, ok |-> FALSE]
    ELSE LET R == RemoveSession(T, sid)
         IN [table |-> SaveSessions(
                         [R EXCEPT !.dirs = IF ~preserve_data THEN R.dirs \ {sid}
                                            ELSE R.dirs]),
             ok |-> TRUE]

\* update_session_access(session_id)
UpdateSessionAccess(T, sid, t) ==
    IF sid \in DOMAIN T.sessions
    THEN [table |-> [T EXCEPT !.sessions[sid].last_accessed = t], ok |-> TRUE]
    ELSE [table |-> T, ok |-> FALSE]

\* the sessions _cleanup_expired_sessions finds expired
ExpiredSessions(T, t) == {sid \in DOMAIN T.sessions : IsExpired(T.sessions[sid], t)}

\* _cleanup_expired_sessions(): every expired session leaves the tables and
\* loses its directory; sessions.json is written only if one was expired
CleanupExpiredSessions(T, t) ==
    LET expired == ExpiredSessions(T, t)
        R == [T EXCEPT !.sessions = DelAll(T.sessions, expired),
                       !.user_sessions =
                           [u \in {v \in DOMAIN T.user_sessions :
                                      ~(/\ T.user_sessions[v] \in expired
                                        /\ T.sessions[T.user_sessions[v]].user_id = v)}
                              |-> T.user_sessions[u]],
                       !.dirs = T.dirs \ expired]
    IN [table |-> IF expired # {} THEN SaveSessions(R) ELSE R,
        expired |-> expired]

-----------------------------------------------------------------------------
(***************************************************************************)
(* The execution engine of terminal_command_handler.py                     *)
(***************************************************************************)

\* A command is the sequence of its words; <<>> is a request without command
Commands == { <<>>, <<"ls">>, <<"cat", "f">>, <<"sudo", "ls">>, <<"help">> }

\* what the last step did: op is the operation, sid the session id it was
\* called with, cmd its command, kind the answer, ret the session id the
\* answer carries (0 for none), pid the process concerned (0 for none), flag
\* an input or finding of the operation, gone the sessions a sweep removed,
\* failed whether the backend of the operation (directory creation,
\* environment setup) failed
NoEv == [op |-> "init", sid |-> 0, cmd |-> <<>>, kind |-> "none", ret |-> 0,
         pid |-> 0, flag |-> FALSE, gone |-> {}, failed |-> FALSE,
         expires |-> 0, helper |-> "none", hdr |-> 0]

\* the session timeout in seconds: SESSION_TIMEOUT of the servers and the
\* default session_timeout of SessionManager
SessionTimeoutSeconds == 3600

\* 'expiresIn': self.session_timeout of SessionManager.create_session
ManagerExpiresIn == SessionTimeoutSeconds

\* 'expiresIn': SESSION_TIMEOUT * 1000 of create_session of flask_server.py
FlaskExpiresIn == SessionTimeoutSeconds * 1000

Event(op, sid, kind) == [NoEv EXCEPT !.op = op, !.sid = sid, !.kind = kind]

\* os.killpg(os.getpgid(process.pid), signal.SIGTERM)
Kill(ps, pid) ==
    IF ps[pid].status = "running" THEN [ps EXCEPT ![pid].status = "terminated"]
    ELSE ps

Live(pid) == pid \in DOMAIN procs /\ procs[pid].status = "running"

\* the entry of the table removed and its process group signalled
TerminateEntry(ps, table, sid) ==
    IF sid \in DOMAIN table
    THEN [procs |-> Kill(ps, table[sid]), table |-> Del(table, sid)]
    ELSE [procs |-> ps, table |-> table]

\* the commands _handle_file_operations answers itself, without a process
FileOpWords == {"cat", "more", "less", "mkdir", "rm"}

IsFileOperation(cmd) == Len(cmd) >= 2 /\ cmd[1] \in FileOpWords

\* a process that has ended and that no thread waits for
Reaped == [sid |-> 0, status |-> "exited", waiter |-> "none", renewed |-> FALSE]

\* the process table with the ended, unwatched processes forgotten
Reap(ps) ==
    [p \in DOMAIN ps |-> IF ps[p].status # "running" /\ ps[p].waiter = "none"
                         THEN Reaped ELSE ps[p]]

\* Popen(...): the new entry of the process table
Spawned(sid, waiter, renewed) ==
    [sid |-> sid, status |-> "running", waiter |-> waiter, renewed |-> renewed]

\* TerminalCommandHandler.execute_command(command, session_id, session_data,
\* callback) up to the point where the process runs: e is the event prepared
\* by the route, waiter is "stream" with a callback and "sync" without
TerminalExecute(e, sid, cmd, homeExists, waiter, renewed, spawnOK) ==
    IF ~homeExists \/ IsFileOperation(cmd) \/ ~spawnOK
    THEN /\ ev' = [e EXCEPT !.kind = IF ~homeExists THEN "error"
                                     ELSE IF IsFileOperation(cmd) THEN "file"
                                     ELSE "error"]
         /\ UNCHANGED procVars
    ELSE /\ nextPid <= MaxProcs
         /\ procs' = Put(procs, nextPid, Spawned(sid, waiter, renewed))
         /\ processes' = Put(processes, sid, nextPid)
         /\ nextPid' = nextPid + 1
         /\ ev' = [e EXCEPT !.kind = IF waiter = "sync" THEN "waiting" ELSE "started",
                            !.pid = nextPid]
         /\ UNCHANGED <<running_processes, socket_processes>>

\* process.communicate(timeout=60) returns: the process has ended by itself or
\* was signalled; the entry of the session is removed, whosever it is
CommunicateReturns(pid) ==
    /\ pid \in DOMAIN procs
    /\ procs[pid].waiter = "sync"
    /\ procs[pid].status \in {"running", "terminated"}
    /\ procs' = Reap([procs EXCEPT ![pid].waiter = "none",
                                   ![pid].status = IF @ = "running" THEN "exited" ELSE @])
    /\ processes' = Del(processes, procs[pid].sid)
    /\ ev' = [Event("exec", procs[pid].sid, "output") EXCEPT !.pid = pid]
    /\ UNCHANGED <<now, tableVars, running_processes, socket_processes, nextPid>>
    /\ UNCHANGED <<poolVars, pathVars, otherVars>>

\* process.communicate(timeout=60) raises TimeoutExpired: the process of the
\* session's entry is signalled and the entry removed
CommunicateTimeout(pid) ==
    /\ pid \in DOMAIN procs
    /\ procs[pid].waiter = "sync"
    /\ procs[pid].status = "running"
    /\ LET R == TerminateEntry(procs, processes, procs[pid].sid)
       IN /\ procs' = Reap([R.procs EXCEPT ![pid].waiter = "none"])
          /\ processes' = R.table
    /\ ev' = [Event("exec", procs[pid].sid, "timeout") EXCEPT !.pid = pid]
    /\ UNCHANGED <<now, tableVars, running_processes, socket_processes, nextPid>>
    /\ UNCHANGED <<poolVars, pathVars, otherVars>>

\* the thread of _stream_output_with_callback sees the process end: the entry
\* of the session is removed, whosever it is, and the completion event sent
StreamOutputEnds(pid) ==
    /\ pid \in DOMAIN procs
    /\ procs[pid].waiter = "stream"
    /\ procs[pid].status \in {"running", "terminated"}
    /\ procs' = Reap([procs EXCEPT ![pid].waiter = "none",
                                   ![pid].status = IF @ = "running" THEN "exited" ELSE @])
    /\ processes' = Del(processes, procs[pid].sid)
    /\ ev' = [Event("stream", procs[pid].sid, "complete") EXCEPT
                 !.pid = pid,
                 !.flag = procs[pid].renewed,
                 !.ret = IF procs[pid].renewed THEN procs[pid].sid ELSE 0]
    /\ UNCHANGED <<now, tableVars, running_processes, socket_processes, nextPid>>
    /\ UNCHANGED <<poolVars, pathVars, otherVars>>

\* process.communicate(timeout=60) raises another exception (text=True: the
\* output is not valid UTF-8): `except Exception' answers the error result
\* and leaves self.processes alone
CommunicateRaises(pid) ==
    /\ pid \in DOMAIN procs
    /\ procs[pid].waiter = "sync"
    /\ procs[pid].status \in {"running", "terminated"}
    /\ procs' = Reap([procs EXCEPT ![pid].waiter = "none"])
    /\ ev' = [Event("exec", procs[pid].sid, "exception") EXCEPT !.pid = pid,
                                                                !.failed = TRUE]
    /\ UNCHANGED <<now, tableVars, processes, running_processes, socket_processes, nextPid>>
    /\ UNCHANGED <<poolVars, pathVars, otherVars>>

\* the thread of _stream_output_with_callback (or stream_output of
\* flask_server.py) passes a chunk of output to the caller
StreamOutputChunk(pid) ==
    /\ pid \in DOMAIN procs
    /\ procs[pid].waiter = "stream"
    /\ ev' = [Event("stream", procs[pid].sid, "output") EXCEPT !.pid = pid]
    /\ UNCHANGED <<now, tableVars, procVars>>
    /\ UNCHANGED <<poolVars, pathVars, otherVars>>

\* the thread of _stream_output_with_callback catches an exception once the
\* process has ended (process.stdout.read() is a str under text=True, so
\* .decode raises when output is left): the error text goes out as output,
\* the entry of the session is removed, no completion event is sent
StreamOutputRaises(pid) ==
    /\ pid \in DOMAIN procs
    /\ procs[pid].waiter = "stream"
    /\ procs[pid].status \in {"running", "terminated"}
    /\ procs' = Reap([procs EXCEPT ![pid].waiter = "none",
                                   ![pid].status = IF @ = "running" THEN "exited" ELSE @])
    /\ processes' = Del(processes, procs[pid].sid)
    /\ ev' = [Event("stream", procs[pid].sid, "output") EXCEPT
                 !.pid = pid, !.flag = procs[pid].renewed, !.failed = TRUE]
    /\ UNCHANGED <<now, tableVars, running_processes, socket_processes, nextPid>>
    /\ UNCHANGED <<poolVars, pathVars, otherVars>>

\* a process nobody waits for any more ends by itself
ProcessExits(pid) ==
    /\ pid \in DOMAIN procs
    /\ procs[pid].waiter = "none"
    /\ procs[pid].status = "running"
    /\ procs' = Reap([procs EXCEPT ![pid].status = "exited"])
    /\ ev' = [Event("exit", procs[pid].sid, "none") EXCEPT !.pid = pid]
    /\ UNCHANGED <<now, tableVars, processes, running_processes, socket_processes, nextPid>>
    /\ UNCHANGED <<poolVars, pathVars, otherVars>>

-----------------------------------------------------------------------------
(***************************************************************************)
(* The routes and socket events of enhanced_flask_server.py                *)
(***************************************************************************)

StoreFrame == UNCHANGED <<poolVars, pathVars, otherVars>>

\* time passes
Tick ==
    /\ now < MaxTime
    /\ now' = now + 1
    /\ ev' = Event("tick", 0, "none")
    /\ UNCHANGED <<tableVars, procVars>>
    /\ StoreFrame

\* POST /create-session and the socket event create_session
CreateSessionRoute(scope) ==
    \E u \in scope.clients, mkdirOK \in BOOLEAN :
        /\ nextSid <= scope.limit
        /\ LET c == CreateSession(Table, nextSid, u, now, mkdirOK)
           IN /\ SetTable(c.table)
              /\ nextSid' = IF mkdirOK THEN nextSid + 1 ELSE nextSid
              /\ ev' = [Event("create", 0, IF mkdirOK THEN "ok" ELSE "error")
                           EXCEPT !.ret = c.session, !.failed = ~mkdirOK,
                                  !.expires = IF mkdirOK THEN ManagerExpiresIn ELSE 0]
        /\ UNCHANGED <<now, procVars>>
        /\ StoreFrame

\* the socket event join_session: session_manager.get_session(session_id)
HandleJoinSession ==
    \E sid \in SessionIds :
        /\ LET g == GetSession(Table, sid, now)
           IN /\ SetTable(g.table)
              /\ ev' = [Event("get", sid, IF g.session = 0 THEN "none" ELSE "ok")
                           EXCEPT !.ret = g.session,
                                  !.flag = sid \in DOMAIN sessions]
        /\ UNCHANGED <<now, nextSid, procVars>>
        /\ StoreFrame

\* DELETE /session: session_manager.end_session(session_id, preserve_data)
EndSessionApi ==
    \E sid \in SessionIds, preserve \in BOOLEAN :
        /\ LET r == EndSession(Table, sid, preserve)
           IN /\ SetTable(r.table)
              /\ ev' = [Event("end", sid, IF r.ok THEN "ok" ELSE "not_found")
                           EXCEPT !.flag = preserve]
        /\ UNCHANGED <<now, nextSid, procVars>>
        /\ StoreFrame

\* the socket event end_session: terminate_process, then end_session
HandleEndSession ==
    \E sid \in SessionIds, preserve \in BOOLEAN :
        /\ LET k == TerminateEntry(procs, processes, sid)
               r == EndSession(Table, sid, preserve)
           IN /\ procs' = Reap(k.procs)
              /\ processes' = k.table
              /\ SetTable(r.table)
              /\ ev' = [Event("end", sid, IF r.ok THEN "ok" ELSE "not_found")
                           EXCEPT !.flag = preserve]
        /\ UNCHANGED <<now, nextSid, running_processes, socket_processes, nextPid>>
        /\ StoreFrame

\* the socket event disconnect of a socket joined to the session
HandleDisconnect ==
    \E sid \in DOMAIN processes :
        /\ LET k == TerminateEntry(procs, processes, sid)
           IN /\ procs' = Reap(k.procs)
              /\ processes' = k.table
        /\ ev' = Event("disconnect", sid, "none")
        /\ UNCHANGED <<now, tableVars, running_processes, socket_processes, nextPid>>
        /\ StoreFrame

\* one round of _cleanup_loop
CleanupLoop ==
    /\ LET c == CleanupExpiredSessions(Table, now)
       IN /\ SetTable(c.table)
          /\ ev' = [Event("sweep", 0, "none") EXCEPT !.gone = c.expired]
    /\ UNCHANGED <<now, nextSid, procVars>>
    /\ StoreFrame

\* POST /execute-command
EnhancedExecuteCommand ==
    \E sid \in SessionIds, cmd \in Commands, spawnOK \in BOOLEAN :
        LET g == GetSession(Table, sid, now)
            e == [Event("exec", sid, "none") EXCEPT !.flag = g.session = 0]
        IN /\ IF cmd = <<>>
              THEN /\ ev' = [e EXCEPT !.kind = "bad_request", !.flag = FALSE]
                   /\ UNCHANGED <<tableVars, procVars>>
              ELSE IF g.session = 0
              THEN /\ SetTable(g.table)
                   /\ ev' = [e EXCEPT !.kind = "invalid_session"]
                   /\ UNCHANGED <<nextSid, procVars>>
              ELSE /\ SetTable(g.table)
                   /\ UNCHANGED nextSid
                   /\ TerminalExecute(e, sid, cmd, sid \in dirs, "sync", FALSE, spawnOK)
           /\ UNCHANGED now
           /\ StoreFrame

\* the socket event execute_command
EnhancedHandleExecuteCommand(scope) ==
    \E sid \in SessionIds, cmd \in Commands, mkdirOK \in BOOLEAN, spawnOK \in BOOLEAN :
        LET g == GetSession(Table, sid, now)
            c == CreateSession(g.table, nextSid, AnonymousUser(nextSid), now, mkdirOK)
            e == [Event("stream", sid, "none") EXCEPT !.flag = g.session = 0]
        IN /\ IF cmd = <<>>
              THEN /\ ev' = [e EXCEPT !.kind = "bad_request", !.flag = FALSE]
                   /\ UNCHANGED <<tableVars, procVars>>
              ELSE IF g.session # 0
              THEN /\ SetTable(g.table)
                   /\ UNCHANGED nextSid
                   /\ TerminalExecute(e, sid, cmd, sid \in dirs, "stream", FALSE, spawnOK)
              ELSE IF ~mkdirOK
              THEN /\ nextSid <= scope.limit
                   /\ SetTable(c.table)
                   /\ ev' = [e EXCEPT !.kind = "error"]
                   /\ UNCHANGED <<nextSid, procVars>>
              ELSE /\ nextSid <= scope.limit
                   /\ SetTable(c.table)
                   /\ nextSid' = nextSid + 1
                   /\ TerminalExecute([e EXCEPT !.ret = c.session], c.session, cmd,
                                      TRUE, "stream", TRUE, spawnOK)
           /\ UNCHANGED now
           /\ StoreFrame

\* no file command has run
NoFileEv == [op |-> "none", append |-> FALSE, content |-> <<>>, path |-> <<>>,
             before |-> <<>>, kind |-> "none", output |-> <<>>]

\* the file commands are not used
FileIdle ==
    /\ files = EmptyMap
    /\ fileEv = NoFileEv

\* the session pool is not used
SlotIdle ==
    /\ session_pool = <<>>
    /\ setup_done = {}
    /\ pool_clock = 0
    /\ refilled = TRUE
    /\ refill_pending = FALSE
    /\ pool_timers = 0

\* no command is being prepared
NoVerdict == [python |-> FALSE, command |-> <<>>, kind |-> "none"]

WrapIdle ==
    /\ cmdText = <<>>
    /\ cmdVerdict = NoVerdict

StoreInit ==
    /\ now = 0
    /\ sessions = EmptyMap
    /\ user_sessions = EmptyMap
    /\ dirs = {}
    /\ saved = [sessions |-> EmptyMap, user_sessions |-> EmptyMap]
    /\ procs = EmptyMap
    /\ processes = EmptyMap
    /\ running_processes = EmptyMap
    /\ socket_processes = EmptyMap
    /\ nextSid = 1
    /\ nextPid = 1
    /\ ev = NoEv
    /\ started = TRUE
    /\ cleanup_timer = TRUE
    /\ reaper_save = NoSave
    /\ SlotIdle
    /\ FileIdle
    /\ WrapIdle

\* the session manager alone, without commands
ManagerNext ==
    \/ Tick
    \/ CreateSessionRoute(TableScope)
    \/ HandleJoinSession
    \/ EndSessionApi
    \/ CleanupLoop

StoreNext ==
    \/ Tick
    \/ CreateSessionRoute(EngineScope)
    \/ HandleJoinSession
    \/ EndSessionApi
    \/ HandleEndSession
    \/ HandleDisconnect
    \/ CleanupLoop
    \/ EnhancedExecuteCommand
    \/ EnhancedHandleExecuteCommand(EngineScope)
    \/ \E pid \in Pids : \/ CommunicateReturns(pid)
                         \/ CommunicateTimeout(pid)
                         \/ CommunicateRaises(pid)
                         \/ StreamOutputChunk(pid)
                         \/ StreamOutputEnds(pid)
                         \/ StreamOutputRaises(pid)
                         \/ ProcessExits(pid)

-----------------------------------------------------------------------------
(***************************************************************************)
(* The session tables of flask_server.py                                   *)
(***************************************************************************)

\* uuid5(namespace, f"{user_id}-{device_id}-{client_ip}"): the session id
\* create_session derives for a client when the session pool is empty
UuidFive(u) == 0 - u

\* the session ids a request to flask_server.py may name: those the server
\* may issue to the clients
FlaskIds(scope) == (1..scope.limit) \cup {UuidFive(u) : u \in scope.clients}

\* get_session writing a time before the current one
FlaskGetSessionBackdating(T, sid, hdr, t) ==
    IF sid \notin DOMAIN T.sessions
    THEN IF /\ hdr # 0
            /\ hdr \in DOMAIN T.user_sessions
            /\ T.user_sessions[hdr] \in DOMAIN T.sessions
         THEN [table |-> T, session |-> T.user_sessions[hdr]]
         ELSE [table |-> T, session |-> 0]
    ELSE IF t - T.sessions[sid].last_accessed > SESSION_TIMEOUT
         THEN [table |-> [T EXCEPT !.sessions = Del(T.sessions, sid)], session |-> 0]
         ELSE [table |-> [T EXCEPT !.sessions[sid].last_accessed = t - SESSION_TIMEOUT,
                                   !.user_sessions =
                                       Put(T.user_sessions, T.sessions[sid].user_id, sid)],
               session |-> sid]

\* get_session(session_id) of flask_server.py; hdr is the userId of the
\* X-Session-Data header of the request (0 without the header)
FlaskGetSession(T, sid, hdr, t) ==
    IF sid \notin DOMAIN T.sessions
    THEN IF /\ hdr # 0
            /\ hdr \in DOMAIN T.user_sessions
            /\ T.user_sessions[hdr] \in DOMAIN T.sessions
         THEN [table |-> T, session |-> T.user_sessions[hdr]]
         ELSE [table |-> T, session |-> 0]
    ELSE IF t - T.sessions[sid].last_accessed > SESSION_TIMEOUT
         THEN [table |-> [T EXCEPT !.sessions = Del(T.sessions, sid)], session |-> 0]
         ELSE [table |-> [T EXCEPT !.sessions[sid].last_accessed = t,
                                   !.user_sessions =
                                       Put(T.user_sessions, T.sessions[sid].user_id, sid)],
               session |-> sid]

\* the session record a request creates for itself when get_session found
\* none (auto-renewal): a fresh uuid4, setup_user_environment(home_dir)
FlaskRenew(T, sid, u, t) ==
    [T EXCEPT !.dirs = T.dirs \cup {sid},
              !.sessions = Put(T.sessions, sid, [user_id |-> u, last_accessed |-> t])]

\* a touch that writes the start of the epoch instead of the time
FlaskTouchResetting(T, sid, t) ==
    IF sid \in DOMAIN T.sessions
    THEN [T EXCEPT !.sessions[sid].last_accessed = 0]
    ELSE T

\* sessions[session_id]['last_accessed'] = time.time(), if the id is known
FlaskTouch(T, sid, t) ==
    IF sid \in DOMAIN T.sessions
    THEN [T EXCEPT !.sessions[sid].last_accessed = t]
    ELSE T

FlaskFrame == UNCHANGED <<poolVars, pathVars, otherVars, processes>>

\* POST /create-session of flask_server.py: the id is that of a pooled
\* session (a fresh uuid4) or, with the pool empty, the uuid5 of the client;
\* setupOK is what setup_user_environment(home_dir) returns on the slow path
\* (False when the directory could not be made)
FlaskCreateSession(scope) ==
    \E u \in scope.clients, pooled \in scope.pools, setupOK \in BOOLEAN :
        /\ pooled => (nextSid <= scope.limit /\ setupOK)
        /\ LET sid == IF pooled THEN nextSid ELSE UuidFive(u)
           IN /\ sessions' = Put(sessions, sid, [user_id |-> u, last_accessed |-> now])
              /\ dirs' = IF setupOK THEN dirs \cup {sid} ELSE dirs
              /\ nextSid' = IF pooled THEN nextSid + 1 ELSE nextSid
              /\ ev' = [Event("create", 0, "ok") EXCEPT !.ret = sid,
                                                        !.flag = sid \in DOMAIN sessions,
                                                        !.failed = ~setupOK,
                                                        !.expires = FlaskExpiresIn]
        /\ UNCHANGED <<now, user_sessions, saved, procs, running_processes,
                       socket_processes, nextPid>>
        /\ FlaskFrame

\* GET /session: get_session(session_id)
FlaskSessionInfo(scope) ==
    \E sid \in FlaskIds(scope), hdr \in scope.headers :
        /\ LET g == FlaskGetSession(Table, sid, hdr, now)
           IN /\ SetTable(g.table)
              /\ ev' = [Event("get", sid, IF g.session = 0 THEN "none" ELSE "ok")
                           EXCEPT !.ret = g.session,
                                  !.flag = sid \in DOMAIN sessions,
                                  !.hdr = hdr]
        /\ UNCHANGED <<now, nextSid, procs, running_processes, socket_processes, nextPid>>
        /\ FlaskFrame

\* DELETE /session of flask_server.py
FlaskDeleteSession(scope) ==
    \E sid \in FlaskIds(scope) :
        /\ sessions' = Del(sessions, sid)
        /\ ev' = Event("end", sid, "ok")
        /\ UNCHANGED <<now, user_sessions, dirs, saved, nextSid, procs,
                       running_processes, socket_processes, nextPid>>
        /\ FlaskFrame

\* terminate_process(session_id) of flask_server.py
FlaskTerminateProcess(ps, table, sid) == TerminateEntry(ps, table, sid)

RECURSIVE TerminateAll(_, _, _)
\* terminate_process for each session of the set
TerminateAll(ps, table, sids) ==
    IF sids = {} THEN [procs |-> ps, table |-> table]
    ELSE LET sid == CHOOSE x \in sids : TRUE
             k == FlaskTerminateProcess(ps, table, sid)
         IN TerminateAll(k.procs, k.table, sids \ {sid})

\* cleanup_sessions(): the expired sessions lose their entry in
\* running_processes and their record
FlaskCleanupSessions ==
    /\ LET expired == {sid \in DOMAIN sessions :
                          now - sessions[sid].last_accessed > SESSION_TIMEOUT}
           k == TerminateAll(procs, running_processes, expired)
       IN /\ procs' = Reap(k.procs)
          /\ running_processes' = k.table
          /\ sessions' = DelAll(sessions, expired)
          /\ ev' = [Event("sweep", 0, "none") EXCEPT !.gone = expired]
    /\ UNCHANGED <<now, user_sessions, dirs, saved, nextSid, socket_processes, nextPid>>
    /\ FlaskFrame

-----------------------------------------------------------------------------
(***************************************************************************)
(* The command routes of flask_server.py                                   *)
(***************************************************************************)

\* disallowed_commands: each pattern as its words; more tells that the
\* pattern ends in a blank, so that a further word has to follow
DisallowedCommands ==
    { [words |-> <<"sudo">>, more |-> TRUE],
      [words |-> <<"su">>, more |-> TRUE],
      [words |-> <<"chmod", "777">>, more |-> TRUE],
      [words |-> <<"chmod", "-R", "777">>, more |-> TRUE],
      [words |-> <<"rm", "-rf", "/">>, more |-> FALSE],
      [words |-> <<"dd", "if=/dev/zero">>, more |-> FALSE],
      [words |-> <<">", "/dev/sda">>, more |-> FALSE],
      [words |-> <<":(){", ":|:&", "};:">>, more |-> FALSE] }

\* bad_cmd in command
ContainsPattern(cmd, pat) ==
    \E i \in 1..Len(cmd) :
        /\ i + Len(pat.words) - 1 <= Len(cmd)
        /\ \A j \in 1..Len(pat.words) : cmd[i + j - 1] = pat.words[j]
        /\ pat.more => i + Len(pat.words) <= Len(cmd)

Denylisted(cmd) == \E pat \in DisallowedCommands : ContainsPattern(cmd, pat)

\* command.strip() == 'help': answered from help.txt
IsBuiltin(cmd) == cmd = <<"help">>

\* what becomes of `if USE_CONTAINERS and container_pool is not None' and
\* the call of the container pool: "none" when there is no container pool or
\* the call raises, so that the directory backend runs the command; "ok" and
\* "error" when the container pool answers
ContainerOutcomes == {"none", "ok", "error"}

\* is_interactive: the command starts with one of interactive_cmds
IsInteractive(cmd) == cmd # <<>> /\ cmd[1] \in InteractiveCmds

\* what becomes of the interactive-command-handler of a command flagged
\* interactive: "fifos" when it ends with code 0 within 10 s and prints the
\* two FIFO paths; "failed" when it is missing, ends with another code or
\* prints something else (also something that cannot be split into two
\* paths); "timeout" when communicate(timeout=10) raises
HelperOutcomes == {"fifos", "failed", "timeout"}

\* the FIFO paths taken from a helper that ran out of time as well
HelperGaveFifosLate(helper) == helper \in {"fifos", "timeout"}

\* handler_process.returncode == 0 and "FIFOs:" in handler_out, and the
\* output splits into the two paths
HelperGaveFifos(helper) == helper = "fifos"

\* the answer carries sessionRenewed and newSessionId
Annotated(e, renewed, sid) == [e EXCEPT !.ret = IF renewed THEN sid ELSE 0]

\* POST /execute-command of flask_server.py, up to the point where the
\* process runs. u is the device id of the request, hdr the userId of its
\* X-Session-Data header (read only when the id is unknown), backend the
\* outcome of container_pool.execute_command
FlaskExecuteCommand(scope) ==
    \E sid \in FlaskIds(scope), hdr \in scope.headers, u \in scope.clients,
       cmd \in scope.commands,
       backend \in ContainerOutcomes,
       spawnOK \in BOOLEAN :
      \E helper \in IF IsInteractive(cmd) THEN HelperOutcomes ELSE {"none"} :
        LET g == FlaskGetSession(Table, sid, hdr, now)
            renewed == g.session = 0
            session_id == IF renewed THEN nextSid ELSE sid
            session == IF renewed THEN nextSid ELSE g.session
            T1 == IF renewed THEN FlaskRenew(g.table, nextSid, u, now) ELSE g.table
            T2 == FlaskTouch(T1, session_id, now)
            T3 == [T2 EXCEPT !.dirs = T2.dirs \cup {session}]
            e == [Event("exec", sid, "none") EXCEPT !.cmd = cmd, !.flag = renewed]
            \* the request has reached the interactive helper
            eh == [e EXCEPT !.helper = helper]
            k == FlaskTerminateProcess(procs, running_processes, session_id)
        IN /\ renewed => nextSid <= scope.limit
           /\ nextSid' = IF renewed THEN nextSid + 1 ELSE nextSid
           /\ IF cmd = <<>>
              THEN /\ SetTable(T1)
                   /\ ev' = [e EXCEPT !.kind = "bad_request"]
                   /\ UNCHANGED procVars
              ELSE IF backend # "none"
              THEN /\ SetTable(T2)
                   /\ ev' = Annotated([e EXCEPT !.kind = IF backend = "ok" THEN "output"
                                                         ELSE "error"],
                                      renewed, session_id)
                   /\ UNCHANGED procVars
              ELSE IF IsBuiltin(cmd)
              THEN /\ SetTable(T2)
                   /\ ev' = [e EXCEPT !.kind = "builtin"]
                   /\ UNCHANGED procVars
              ELSE IF Denylisted(cmd)
              THEN /\ SetTable(T3)
                   /\ ev' = [e EXCEPT !.kind = "forbidden"]
                   /\ UNCHANGED procVars
              ELSE IF HelperGaveFifos(helper)
              THEN /\ SetTable(T3)
                   /\ procs' = Reap(k.procs)
                   /\ running_processes' = k.table
                   /\ ev' = [eh EXCEPT !.kind = "interactive"]
                   /\ UNCHANGED <<socket_processes, nextPid>>
              ELSE IF ~spawnOK
              THEN /\ SetTable(T3)
                   /\ procs' = Reap(k.procs)
                   /\ running_processes' = k.table
                   /\ ev' = Annotated([eh EXCEPT !.kind = "error"], renewed, session_id)
                   /\ UNCHANGED <<socket_processes, nextPid>>
              ELSE /\ nextPid <= MaxProcs
                   /\ SetTable(T3)
                   /\ procs' = Put(Reap(k.procs), nextPid,
                                   Spawned(session_id, "sync", renewed))
                   /\ running_processes' = Put(k.table, session_id, nextPid)
                   /\ nextPid' = nextPid + 1
                   /\ ev' = [eh EXCEPT !.kind = "waiting", !.pid = nextPid]
                   /\ UNCHANGED socket_processes
           /\ UNCHANGED now
           /\ FlaskFrame

\* process.communicate(timeout=COMMAND_TIMEOUT) returns in execute_command
FlaskCommunicateReturns(pid) ==
    /\ pid \in DOMAIN procs
    /\ procs[pid].waiter = "sync"
    /\ procs[pid].status \in {"running", "terminated"}
    /\ procs' = Reap([procs EXCEPT ![pid].waiter = "none",
                                   ![pid].status = IF @ = "running" THEN "exited" ELSE @])
    /\ running_processes' = Del(running_processes, procs[pid].sid)
    /\ \E rc \in {"output", "error"} :
          /\ procs[pid].status = "terminated" => rc = "error"
          /\ ev' = Annotated([Event("exec", procs[pid].sid, rc) EXCEPT
                                 !.pid = pid, !.flag = procs[pid].renewed],
                             procs[pid].renewed, procs[pid].sid)
    /\ UNCHANGED <<now, tableVars, socket_processes, nextPid>>
    /\ FlaskFrame

\* process.communicate(timeout=COMMAND_TIMEOUT) raises TimeoutExpired: the
\* answer is 408 and nothing else happens
FlaskCommunicateTimeout(pid) ==
    /\ pid \in DOMAIN procs
    /\ procs[pid].waiter = "sync"
    /\ procs[pid].status = "running"
    /\ procs' = [procs EXCEPT ![pid].waiter = "none"]
    /\ ev' = Annotated([Event("exec", procs[pid].sid, "timeout") EXCEPT
                           !.pid = pid, !.flag = procs[pid].renewed],
                       procs[pid].renewed, procs[pid].sid)
    /\ UNCHANGED <<now, tableVars, running_processes, socket_processes, nextPid>>
    /\ FlaskFrame

\* the socket event execute_command of flask_server.py, up to the point
\* where the process runs; the new session of a renewal belongs to the socket
FlaskHandleExecuteCommand(scope) ==
    \E sid \in FlaskIds(scope), hdr \in scope.headers,
       cmd \in FlaskCommands,
       backend \in ContainerOutcomes \ {"error"},
       spawnOK \in BOOLEAN :
        LET g == FlaskGetSession(Table, sid, hdr, now)
            renewed == g.session = 0
            session_id == IF renewed THEN nextSid ELSE sid
            session == IF renewed THEN nextSid ELSE g.session
            T1 == IF renewed
                  THEN FlaskRenew(g.table, nextSid, AnonymousUser(nextSid), now)
                  ELSE g.table
            T2 == FlaskTouch(T1, session_id, now)
            T3 == [T2 EXCEPT !.dirs = T2.dirs \cup {session}]
            e == Annotated([Event("stream", sid, "none") EXCEPT !.cmd = cmd,
                                                                !.flag = renewed],
                           renewed, session_id)
        IN IF cmd = <<>>
           THEN /\ ev' = [Event("stream", sid, "bad_request") EXCEPT !.cmd = cmd]
                /\ UNCHANGED <<now, tableVars, procVars>>
                /\ FlaskFrame
           ELSE /\ renewed => nextSid <= scope.limit
                /\ nextSid' = IF renewed THEN nextSid + 1 ELSE nextSid
                /\ IF backend # "none"
                   THEN /\ SetTable(T2)
                        /\ ev' = [e EXCEPT !.kind = "complete"]
                        /\ UNCHANGED procVars
                   ELSE IF ~spawnOK
                   THEN /\ SetTable(T3)
                        /\ ev' = [e EXCEPT !.kind = "error"]
                        /\ UNCHANGED procVars
                   ELSE /\ nextPid <= MaxProcs
                        /\ SetTable(T3)
                        /\ procs' = Put(procs, nextPid,
                                        Spawned(session_id, "stream", renewed))
                        /\ socket_processes' = Put(socket_processes, session_id, nextPid)
                        /\ nextPid' = nextPid + 1
                        /\ ev' = [e EXCEPT !.kind = "started", !.pid = nextPid]
                        /\ UNCHANGED running_processes
                /\ UNCHANGED now
                /\ FlaskFrame

\* the thread stream_output of handle_execute_command sees the process end
FlaskStreamOutputEnds(pid) ==
    /\ pid \in DOMAIN procs
    /\ procs[pid].waiter = "stream"
    /\ procs[pid].status \in {"running", "terminated"}
    /\ procs' = Reap([procs EXCEPT ![pid].waiter = "none",
                                   ![pid].status = IF @ = "running" THEN "exited" ELSE @])
    /\ socket_processes' = Del(socket_processes, procs[pid].sid)
    /\ ev' = Annotated([Event("stream", procs[pid].sid, "complete") EXCEPT
                           !.pid = pid, !.flag = procs[pid].renewed],
                       procs[pid].renewed, procs[pid].sid)
    /\ UNCHANGED <<now, tableVars, running_processes, nextPid>>
    /\ FlaskFrame

\* process.communicate(timeout=COMMAND_TIMEOUT) raises another exception in
\* execute_command: terminate_process(session_id), then the answer 500
FlaskCommunicateRaises(pid) ==
    /\ pid \in DOMAIN procs
    /\ procs[pid].waiter = "sync"
    /\ procs[pid].status \in {"running", "terminated"}
    /\ LET k == FlaskTerminateProcess([procs EXCEPT ![pid].waiter = "none"],
                                      running_processes, procs[pid].sid)
       IN /\ procs' = Reap(k.procs)
          /\ running_processes' = k.table
    /\ ev' = Annotated([Event("exec", procs[pid].sid, "exception") EXCEPT
                           !.pid = pid, !.flag = procs[pid].renewed, !.failed = TRUE],
                       procs[pid].renewed, procs[pid].sid)
    /\ UNCHANGED <<now, tableVars, socket_processes, nextPid>>
    /\ FlaskFrame

\* the thread stream_output of handle_execute_command catches an exception:
\* command_error is sent and nothing else is done
FlaskStreamOutputRaises(pid) ==
    /\ pid \in DOMAIN procs
    /\ procs[pid].waiter = "stream"
    /\ procs[pid].status \in {"running", "terminated"}
    /\ procs' = Reap([procs EXCEPT ![pid].waiter = "none"])
    /\ ev' = Annotated([Event("stream", procs[pid].sid, "exception") EXCEPT
                           !.pid = pid, !.flag = procs[pid].renewed, !.failed = TRUE],
                       procs[pid].renewed, procs[pid].sid)
    /\ UNCHANGED <<now, tableVars, running_processes, socket_processes, nextPid>>
    /\ FlaskFrame

\* the socket event end_session of flask_server.py
FlaskHandleEndSession(scope) ==
    \E sid \in FlaskIds(scope) :
        /\ LET k == TerminateEntry(procs, socket_processes, sid)
           IN /\ procs' = Reap(k.procs)
              /\ socket_processes' = k.table
        /\ sessions' = Del(sessions, sid)
        /\ ev' = Event("end", sid, "ok")
        /\ UNCHANGED <<now, user_sessions, dirs, saved, nextSid,
                       running_processes, nextPid>>
        /\ FlaskFrame

\* the socket event disconnect of a socket joined to the session
FlaskHandleDisconnect ==
    \E sid \in DOMAIN socket_processes :
        /\ LET k == TerminateEntry(procs, socket_processes, sid)
           IN /\ procs' = Reap(k.procs)
              /\ socket_processes' = k.table
        /\ ev' = Event("disconnect", sid, "none")
        /\ UNCHANGED <<now, tableVars, running_processes, nextPid>>
        /\ FlaskFrame

FlaskInit ==
    /\ now = 0
    /\ sessions = EmptyMap
    /\ user_sessions = EmptyMap
    /\ dirs = {}
    /\ saved = [sessions |-> EmptyMap, user_sessions |-> EmptyMap]
    /\ procs = EmptyMap
    /\ processes = EmptyMap
    /\ running_processes = EmptyMap
    /\ socket_processes = EmptyMap
    /\ nextSid = 1
    /\ nextPid = 1
    /\ ev = NoEv
    /\ started = TRUE
    /\ cleanup_timer = TRUE
    /\ reaper_save = NoSave
    /\ SlotIdle
    /\ FileIdle
    /\ WrapIdle

\* the session tables of flask_server.py alone, without commands
FlaskTableNext ==
    \/ Tick
    \/ FlaskCreateSession(TableScope)
    \/ FlaskSessionInfo(TableScope)
    \/ FlaskDeleteSession(TableScope)
    \/ FlaskCleanupSessions

\* the routes of flask_server.py that take part in an interactive command
FlaskInteractiveNext ==
    \/ Tick
    \/ FlaskCreateSession(InteractiveScope)
    \/ FlaskExecuteCommand(InteractiveScope)
    \/ \E pid \in Pids : \/ FlaskCommunicateReturns(pid)
                         \/ FlaskCommunicateTimeout(pid)
                         \/ ProcessExits(pid)

FlaskNext ==
    \/ Tick
    \/ FlaskCreateSession(EngineScope)
    \/ FlaskSessionInfo(EngineScope)
    \/ FlaskDeleteSession(EngineScope)
    \/ FlaskHandleEndSession(EngineScope)
    \/ FlaskHandleDisconnect
    \/ FlaskCleanupSessions
    \/ FlaskExecuteCommand(EngineScope)
    \/ FlaskHandleExecuteCommand(EngineScope)
    \/ \E pid \in Pids : \/ FlaskCommunicateReturns(pid)
                         \/ FlaskCommunicateTimeout(pid)
                         \/ FlaskCommunicateRaises(pid)
                         \/ StreamOutputChunk(pid)
                         \/ FlaskStreamOutputEnds(pid)
                         \/ FlaskStreamOutputRaises(pid)
                         \/ ProcessExits(pid)

-----------------------------------------------------------------------------
(***************************************************************************)
(* Start-up of the session store: SessionManager.__init__                  *)
(***************************************************************************)

\* _load_sessions(): loadOK is whether sessions.json was read and walked
\* without an exception; a missing file is the empty persisted table
LoadSessionsKeepAll(T, loadOK) ==
    IF loadOK
    THEN [T EXCEPT !.sessions = T.saved.sessions,
                   !.user_sessions = T.saved.user_sessions]
    ELSE [T EXCEPT !.sessions = EmptyMap, !.user_sessions = EmptyMap]

LoadSessions(T, loadOK) ==
    IF loadOK
    THEN [T EXCEPT !.sessions = [sid \in {s \in DOMAIN T.saved.sessions : s \in T.dirs}
                                    |-> T.saved.sessions[sid]],
                   !.user_sessions = T.saved.user_sessions]
    ELSE [T EXCEPT !.sessions = EmptyMap, !.user_sessions = EmptyMap]

\* the server process ends and a new one constructs its SessionManager: the
\* tables of the new object are empty (lines 38-39); sessions.json is as the
\* old process left it, and session directories may have been deleted
Restart ==
    /\ started
    /\ \E kept \in SUBSET dirs :
          /\ dirs' = kept
          /\ sessions' = EmptyMap
          /\ user_sessions' = EmptyMap
    /\ started' = FALSE
    /\ UNCHANGED <<cleanup_timer, reaper_save>>
    /\ ev' = Event("restart", 0, "none")
    /\ UNCHANGED <<now, saved, nextSid, procVars>>
    /\ UNCHANGED <<poolVars, pathVars, wrapVars, slotVars, fileVars>>

\* the end of SessionManager.__init__: self._load_sessions()
Startup ==
    /\ ~started
    /\ \E loadOK \in BOOLEAN :
          /\ SetTable(LoadSessions(Table, loadOK))
          /\ ev' = Event("load", 0, IF loadOK THEN "ok" ELSE "error")
    /\ started' = TRUE
    /\ UNCHANGED <<cleanup_timer, reaper_save>>
    /\ UNCHANGED <<now, nextSid, procVars>>
    /\ UNCHANGED <<poolVars, pathVars, wrapVars, slotVars, fileVars>>

\* the session manager over restarts of the server; the cleanup thread is
\* started before the load and makes its first sweep on the empty tables
BootNext ==
    \/ started /\ ManagerNext
    \/ ~started /\ CleanupLoop
    \/ Restart
    \/ Startup

-----------------------------------------------------------------------------
(***************************************************************************)
(* The preparation of a command in execute_command of flask_server.py      *)
(* (directory backend): cleaning, interpreter detection and wrapping, and  *)
(* the denylist. A text is the sequence of its characters.                 *)
(***************************************************************************)

RmRf == <<"r", "m", " ", "-", "r", "f", " ", "/">>

\* the pieces the commands of the model are put together from
Fragments ==
    { <<>>, RmRf, <<"r", "m", " ", "-", "r", "f">>, <<" ", "/">>,
      <<"p", "r", "i", "n", "t", "(">>, <<"x", "=">>,
      <<"\"">>, <<"x">>, <<" ">>, <<"(">>, <<")">>, <<"$">> }

\* the texts of at most n pieces
RECURSIVE Pieces(_)
Pieces(n) ==
    IF n = 0 THEN {<<>>}
    ELSE {a \o b : a \in Pieces(n - 1), b \in Fragments}

CommandTexts == Pieces(MaxFragments)

\* pattern in text
ContainsText(text, pattern) ==
    \E i \in 0..(Len(text) - Len(pattern)) :
        \A j \in 1..Len(pattern) : text[i + j] = pattern[j]

\* text.strip(), for blanks
RECURSIVE Strip(_)
Strip(text) ==
    IF text = <<>> THEN text
    ELSE IF Head(text) = " " THEN Strip(Tail(text))
    ELSE IF text[Len(text)] = " " THEN Strip(SubSeq(text, 1, Len(text) - 1))
    ELSE text

\* lines 2359-2364: a leading $ is removed; otherwise the command is left as
\* it came
CleanCommand(command) ==
    LET cleaned == Strip(command)
    IN IF StartsWith(cleaned, <<"$">>) THEN Strip(Tail(cleaned)) ELSE command

\* those of python_patterns a command of the model can begin with
PythonPatterns == { <<"p", "r", "i", "n", "t", "(">> }

\* those of python_functions a command of the model can contain
PythonFunctions == { <<"i", "n", "t", "(">> }

Letters == {"r", "m", "f", "p", "i", "n", "t", "x"}

\* re.search(r'^[a-zA-Z_][a-zA-Z0-9_]*\s*=\s*.+$', command.strip())
IsAssignment(text) ==
    \E k \in 1..Len(text), e \in 1..Len(text) :
        /\ \A i \in 1..k : text[i] \in Letters
        /\ k < e
        /\ \A i \in (k + 1)..(e - 1) : text[i] = " "
        /\ text[e] = "="
        /\ e < Len(text)

\* is_python_code, lines 2366-2405
IsPythonCode(command) ==
    \/ \E pattern \in PythonPatterns : StartsWith(Strip(command), pattern)
    \/ \E func \in PythonFunctions : ContainsText(command, func)
    \/ IsAssignment(Strip(command))
    \/ ContainsText(command, <<"[">>) /\ ContainsText(command, <<"]">>)
    \/ ContainsText(command, <<"(">>) /\ ContainsText(command, <<")">>)

\* command.replace(old, new) for a single character old
RECURSIVE Replace(_, _, _)
Replace(text, old, new) ==
    IF text = <<>> THEN <<>>
    ELSE (IF Head(text) = old THEN new ELSE <<Head(text)>>)
             \o Replace(Tail(text), old, new)

\* f'python3 -c "{python_cmd}"' with every blank of the command escaped too
WrapPythonEscapingBlanks(command) ==
    <<"p", "y", "t", "h", "o", "n", "3", " ", "-", "c", " ", "\"">>
        \o Replace(Replace(command, "\"", <<"\\", "\"">>), " ", <<"\\", " ">>)
        \o <<"\"">>

\* lines 2407-2411: python_cmd = command.replace('"', '\\"');
\* command = f'python3 -c "{python_cmd}"'
WrapPython(command) ==
    <<"p", "y", "t", "h", "o", "n", "3", " ", "-", "c", " ", "\"">>
        \o Replace(command, "\"", <<"\\", "\"">>)
        \o <<"\"">>

\* disallowed_commands, lines 2507-2510
DisallowedTexts ==
    { <<"s", "u", "d", "o", " ">>,
      <<"s", "u", " ">>,
      <<"c", "h", "m", "o", "d", " ", "7", "7", "7", " ">>,
      <<"c", "h", "m", "o", "d", " ", "-", "R", " ", "7", "7", "7", " ">>,
      RmRf,
      <<"d", "d", " ", "i", "f", "=", "/", "d", "e", "v", "/", "z", "e", "r", "o">>,
      <<">", " ", "/", "d", "e", "v", "/", "s", "d", "a">>,
      <<":", "(", ")", "{", " ", ":", "|", ":", "&", " ", "}", ";", ":">> }

\* for bad_cmd in disallowed_commands: if bad_cmd in command
DenylistedText(command) == \E bad_cmd \in DisallowedTexts : ContainsText(command, bad_cmd)

\* execute_command from the cleaning of the command (line 2359) to the
\* denylist (line 2524); ENABLE_SYSTEM_COMMANDS is set, as by default
PrepareCommand ==
    /\ cmdVerdict = NoVerdict
    /\ LET cleaned == CleanCommand(cmdText)
           python == IsPythonCode(cleaned)
           command == IF python THEN WrapPython(cleaned) ELSE cleaned
       IN cmdVerdict' = [python |-> python, command |-> command,
                         kind |-> IF DenylistedText(command) THEN "forbidden"
                                  ELSE "accepted"]
    /\ UNCHANGED <<cmdText, poolVars, pathVars>>
    /\ UNCHANGED <<now, tableVars, procVars, ev, startVars, slotVars, fileVars>>

WrapInit ==
    /\ cmdText \in CommandTexts
    /\ cmdVerdict = NoVerdict
    /\ now = 0
    /\ sessions = EmptyMap
    /\ user_sessions = EmptyMap
    /\ dirs = {}
    /\ saved = [sessions |-> EmptyMap, user_sessions |-> EmptyMap]
    /\ procs = EmptyMap
    /\ processes = EmptyMap
    /\ running_processes = EmptyMap
    /\ socket_processes = EmptyMap
    /\ nextSid = 1
    /\ nextPid = 1
    /\ ev = NoEv
    /\ started = TRUE
    /\ cleanup_timer = TRUE
    /\ reaper_save = NoSave
    /\ SlotIdle
    /\ FileIdle

WrapNext == PrepareCommand

-----------------------------------------------------------------------------
(***************************************************************************)
(* The session pool of flask_server.py: initialize_session_pool and the    *)
(* fast path of create_session. The pool is watched for less than one      *)
(* session timeout, so that `now' stays 0.                                 *)
(***************************************************************************)

\* MAX_POOL_AGE (1800 s) in units of pool_clock
MAX_POOL_AGE == 60

\* expired_sessions of initialize_session_pool removed from the pool
FreshSlots(pool, t) ==
    LET Fresh(s) == ~(t - s.created > MAX_POOL_AGE)
    IN SelectSeq(pool, Fresh)

\* the slots of the sessions first..(first + k - 1), created at time t
NewSlots(first, k, t) == [i \in 1..k |-> [session_id |-> first + i - 1, created |-> t]]

\* initialize_session_pool(), under session_pool_lock: the old slots are
\* removed, then k of the needed sessions are made (os.makedirs may fail
\* for the others) and put into the pool; the threads that set up their
\* environments are started, not awaited
InitializeSessionPool ==
    LET kept == FreshSlots(session_pool, pool_clock)
        needed == MaxPoolSlots - Len(kept)
    IN \E k \in 0..needed :
          /\ nextSid + k - 1 <= MaxPoolSessions
          /\ session_pool' = kept \o NewSlots(nextSid, k, pool_clock)
          /\ dirs' = dirs \cup {nextSid + i - 1 : i \in 1..k}
          /\ nextSid' = nextSid + k
          /\ ev' = Event("refill", 0, "none")

\* threading.Timer(30.0, initialize_session_pool), and the call at import:
\* one run in each period of 30 s
PoolTimer ==
    /\ ~refilled
    /\ InitializeSessionPool
    /\ refilled' = TRUE
    /\ pool_timers' = IF pool_timers = 0 THEN 1 ELSE pool_timers
    /\ UNCHANGED <<now, sessions, user_sessions, saved, procVars>>
    /\ UNCHANGED <<setup_done, pool_clock, refill_pending>>
    /\ UNCHANGED <<poolVars, pathVars, startVars, wrapVars, fileVars>>

\* threading.Thread(target=initialize_session_pool) of create_session: the
\* call ends, like every call that is not turned away by
\* pool_initialization_in_progress, by starting a timer for the next
PoolRefillThread ==
    /\ refill_pending
    /\ pool_timers < MaxPoolTimers
    /\ InitializeSessionPool
    /\ refill_pending' = FALSE
    /\ pool_timers' = pool_timers + 1
    /\ UNCHANGED <<now, sessions, user_sessions, saved, procVars>>
    /\ UNCHANGED <<setup_done, pool_clock, refilled>>
    /\ UNCHANGED <<poolVars, pathVars, startVars, wrapVars, fileVars>>

\* a thread setup_user_environment(session['home_dir']) started by
\* initialize_session_pool finishes
SetupCompletes ==
    \E sid \in dirs \ setup_done :
        /\ sid > 0
        /\ setup_done' = setup_done \cup {sid}
        /\ ev' = Event("setup", sid, "none")
        /\ UNCHANGED <<now, tableVars, procVars>>
        /\ UNCHANGED <<session_pool, pool_clock, refilled, refill_pending, pool_timers>>
        /\ UNCHANGED <<poolVars, pathVars, startVars, wrapVars, fileVars>>

\* 30 s pass; the timer has run at every reading of the clock
PoolTick ==
    /\ refilled
    /\ pool_clock < MaxPoolTime
    /\ pool_clock' = pool_clock + 1
    /\ refilled' = FALSE
    /\ ev' = Event("tick", 0, "none")
    /\ UNCHANGED <<now, tableVars, procVars>>
    /\ UNCHANGED <<session_pool, setup_done, refill_pending, pool_timers>>
    /\ UNCHANGED <<poolVars, pathVars, startVars, wrapVars, fileVars>>

\* a slot handed out and left in the pool
PopSlotLeavingIt(pool) == pool

\* session_pool.pop(0), under session_pool_lock: the pool without its first
\* slot
PopSlot(pool) == Tail(pool)

\* POST /create-session of flask_server.py with the session pool as it is:
\* the first slot is taken if there is one (fast path), else the id is the
\* uuid5 of the client and the environment is set up at once (slow path)
FlaskCreateSessionPooled ==
    \E u \in EngineClients, setupOK \in BOOLEAN :
        LET pooled == session_pool # <<>>
            sid == IF pooled THEN Head(session_pool).session_id ELSE UuidFive(u)
        IN /\ pooled => setupOK
           /\ session_pool' = IF pooled THEN PopSlot(session_pool) ELSE session_pool
           /\ refill_pending' = (refill_pending \/ pooled)
           /\ sessions' = Put(sessions, sid, [user_id |-> u, last_accessed |-> now])
           /\ dirs' = IF setupOK THEN dirs \cup {sid} ELSE dirs
           /\ ev' = [Event("create", 0, "ok") EXCEPT !.ret = sid,
                                                     !.flag = sid \in DOMAIN sessions,
                                                     !.failed = ~setupOK,
                                                     !.expires = FlaskExpiresIn]
           /\ UNCHANGED <<now, user_sessions, saved, nextSid, procVars>>
           /\ UNCHANGED <<setup_done, pool_clock, refilled, pool_timers>>
           /\ UNCHANGED <<poolVars, pathVars, startVars, wrapVars, fileVars>>

\* flask_server.py is imported: the pool is empty and the first call of
\* initialize_session_pool is due
SlotInit ==
    /\ session_pool = <<>>
    /\ setup_done = {}
    /\ pool_clock = 0
    /\ refilled = FALSE
    /\ refill_pending = FALSE
    /\ pool_timers = 0
    /\ WrapIdle
    /\ FileIdle
    /\ now = 0
    /\ sessions = EmptyMap
    /\ user_sessions = EmptyMap
    /\ dirs = {}
    /\ saved = [sessions |-> EmptyMap, user_sessions |-> EmptyMap]
    /\ procs = EmptyMap
    /\ processes = EmptyMap
    /\ running_processes = EmptyMap
    /\ socket_processes = EmptyMap
    /\ nextSid = 1
    /\ nextPid = 1
    /\ ev = NoEv
    /\ started = TRUE
    /\ cleanup_timer = TRUE
    /\ reaper_save = NoSave

SlotNext ==
    \/ PoolTimer
    \/ PoolRefillThread
    \/ SetupCompletes
    \/ PoolTick
    \/ FlaskCreateSessionPooled

-----------------------------------------------------------------------------
(***************************************************************************)
(* The file commands of terminal_command_handler.py:                       *)
(* _handle_file_operations for cat and for echo with a redirection. A      *)
(* command, a path and a content are sequences of characters.              *)
(***************************************************************************)

EchoWord == <<"e", "c", "h", "o", " ">>

CatWord == <<"c", "a", "t", " ">>

QuoteChars == {"\"", "'"}

\* the characters of the contents written
ContentChars == {"x", ">"}

\* the file name the commands name
FileNames == {<<"f">>}

RECURSIVE ContentsUpTo(_)
ContentsUpTo(n) ==
    IF n = 0 THEN {<<>>}
    ELSE LET shorter == ContentsUpTo(n - 1)
         IN  shorter \cup {Append(q, c) : q \in {r \in shorter : Len(r) = n - 1},
                                            c \in ContentChars}

Contents == ContentsUpTo(MaxContentLen)

\* what a shell takes as one word without quotes
IsPlainWord(text) == text # <<>> /\ \A i \in 1..Len(text) : text[i] = "x"

\* str.find(sub): the first index (from 0) of sub in text, -1 without one
Find(text, sub) ==
    IF ~ContainsText(text, sub) THEN 0 - 1
    ELSE CHOOSE i \in 0..(Len(text) - Len(sub)) :
            /\ \A j \in 1..Len(sub) : text[i + j] = sub[j]
            /\ \A k \in 0..(i - 1) : \E j \in 1..Len(sub) : text[k + j] # sub[j]

\* text[start:] of Python, start from 0
SliceFrom(text, start) == SubSeq(text, start + 1, Len(text))

\* file_arg.strip('"\''), every quote character at both ends
RECURSIVE StripQuotes(_)
StripQuotes(text) ==
    IF text = <<>> THEN text
    ELSE IF Head(text) \in QuoteChars THEN StripQuotes(Tail(text))
    ELSE IF text[Len(text)] \in QuoteChars
    THEN StripQuotes(SubSeq(text, 1, Len(text) - 1))
    ELSE text

\* lines 316-320: one pair of enclosing quotes is removed from the content
RemoveQuotes(content) ==
    IF StartsWith(content, <<"\"">>) /\ content[Len(content)] = "\""
    THEN SubSeq(content, 2, Len(content) - 1)
    ELSE IF StartsWith(content, <<"'">>) /\ content[Len(content)] = "'"
    THEN SubSeq(content, 2, Len(content) - 1)
    ELSE content

\* lines 322-332 and 258-268: ~ and relative paths are put below home_dir,
\* the path is normalised and has to start with home_dir
HandlerPath(home_dir, path) ==
    IF StartsWith(path, <<"~">>)
    THEN LET normed == OsPathNormpath(home_dir \o Tail(path))
         IN [by |-> "handler", target |-> normed,
             accepted |-> StartsWith(normed, home_dir)]
    ELSE HandlerFileCheck(home_dir, path)

\* the answer of a file command and the files after it
FileAnswer(kind, output, fs) == [kind |-> kind, output |-> output, files |-> fs]

\* _handle_file_operations for `cat ' (lines 244-289)
HandleCat(fs, command, home_dir) ==
    LET file_arg == StripQuotes(Strip(SliceFrom(command, 4)))
        check == HandlerPath(home_dir, file_arg)
    IN IF ~check.accepted THEN FileAnswer("error", <<>>, fs)
       ELSE IF check.target \notin DOMAIN fs THEN FileAnswer("error", <<>>, fs)
       ELSE FileAnswer("output", fs[check.target], fs)

\* _handle_file_operations for `echo ' with a > in the command (291-351)
HandleEcho(fs, command, home_dir) ==
    LET append_mode == ContainsText(command, <<">", ">">>)
        parts == SliceFrom(command, 5)
        redirect_pos == IF append_mode THEN Find(parts, <<">", ">">>)
                        ELSE Find(parts, <<">">>)
        content == RemoveQuotes(Strip(SubSeq(parts, 1, redirect_pos)))
        filepath == Strip(SliceFrom(parts, redirect_pos + (IF append_mode THEN 2 ELSE 1)))
        check == HandlerPath(home_dir, filepath)
        old == IF append_mode /\ check.target \in DOMAIN fs THEN fs[check.target]
               ELSE <<>>
    IN IF ~check.accepted THEN FileAnswer("error", <<>>, fs)
       \* open() of the home directory itself raises IsADirectoryError
       ELSE IF check.target = home_dir THEN FileAnswer("error", <<>>, fs)
       ELSE FileAnswer("output", <<>>, Put(fs, check.target, old \o content))

\* _handle_file_operations(command, home_dir): "shell" stands for None, the
\* command is left to the shell
HandleFileOperations(fs, command0, home_dir) ==
    LET command == Strip(command0)
    IN IF StartsWith(command, CatWord) THEN HandleCat(fs, command, home_dir)
       ELSE IF StartsWith(command, EchoWord) /\ ContainsText(command, <<">">>)
       THEN HandleEcho(fs, command, home_dir)
       ELSE FileAnswer("shell", <<>>, fs)

\* the content of file f of the session, empty when there is no such file
ContentOf(fs, home_dir, f) ==
    LET target == OsPathJoin(home_dir, f)
    IN IF target \in DOMAIN fs THEN fs[target] ELSE <<>>

FileFrame ==
    UNCHANGED <<poolVars, pathVars, now, tableVars, procVars, ev,
                startVars, wrapVars, slotVars>>

\* the command  echo "X" > f  or  echo "X" >> f, X in double or single
\* quotes or, for a plain word, without quotes
EchoCommand ==
    \E X \in Contents, quote \in {<<>>, <<"\"">>, <<"'">>}, f \in FileNames,
       append \in BOOLEAN :
        LET command == EchoWord \o quote \o X \o quote \o <<" ">>
                          \o (IF append THEN <<">", ">">> ELSE <<">">>)
                          \o <<" ">> \o f
            before == ContentOf(files, pathHome, f)
            r == HandleFileOperations(files, command, pathHome)
        IN /\ quote = <<>> => IsPlainWord(X)
           /\ Cardinality(DOMAIN r.files) <= MaxFiles
           /\ \A t \in DOMAIN r.files : Len(r.files[t]) <= MaxFileLen
           /\ files' = r.files
           /\ fileEv' = [op |-> "echo", append |-> append, content |-> X, path |-> f,
                         before |-> before, kind |-> r.kind, output |-> r.output]
           /\ FileFrame

\* the command  cat f
CatCommand ==
    \E f \in FileNames :
        LET r == HandleFileOperations(files, CatWord \o f, pathHome)
        IN /\ files' = r.files
           /\ fileEv' = [NoFileEv EXCEPT !.op = "cat", !.path = f, !.kind = r.kind,
                                         !.output = r.output]
           /\ FileFrame

FileInit ==
    /\ files = EmptyMap
    /\ fileEv = NoFileEv
    /\ SlotIdle
    /\ WrapIdle
    /\ now = 0
    /\ sessions = EmptyMap
    /\ user_sessions = EmptyMap
    /\ dirs = {}
    /\ saved = [sessions |-> EmptyMap, user_sessions |-> EmptyMap]
    /\ procs = EmptyMap
    /\ processes = EmptyMap
    /\ running_processes = EmptyMap
    /\ socket_processes = EmptyMap
    /\ nextSid = 1
    /\ nextPid = 1
    /\ ev = NoEv
    /\ started = TRUE
    /\ cleanup_timer = TRUE
    /\ reaper_save = NoSave

FileNext == EchoCommand \/ CatCommand

-----------------------------------------------------------------------------
(***************************************************************************)
(* The stages of execute_command of flask_server.py (directory backend)    *)
(* from the built-in commands to the interactive flagging, on texts that   *)
(* name a package manager, an editor, the crypto tool or a remote shell.   *)
(***************************************************************************)

KeepAlive == <<"s", "e", "s", "s", "i", "o", "n", "-", "k", "e", "e", "p", "-", "a", "l", "i", "v", "e">>

Apt == <<"a", "p", "t", " ">>

AptGet == <<"a", "p", "t", "-", "g", "e", "t", " ">>

Pkg == <<"p", "k", "g", " ">>

Openssl == <<"o", "p", "e", "n", "s", "s", "l", " ">>

\* os.path.join(session['home_dir'], '.local', 'bin', 'openssl-wrapper'),
\* from the home directory on
OpensslWrapper == <<".", "l", "o", "c", "a", "l", "/", "b", "i", "n", "/", "o", "p", "e", "n", "s", "s", "l", "-", "w", "r", "a", "p", "p", "e", "r">>

\* those of terminal_editors a command of the model can begin with
EditorTexts == { <<"v", "i">> }

\* those of interactive_cmds a command of the model can begin with
InteractiveTexts == { <<"s", "s", "h">>, <<"o", "p", "e", "n", "s", "s", "l">> }

\* the pieces the commands are put together from when the stages are
\* looked at
StageFragments ==
    { <<>>, Apt, AptGet, <<">", " ", "/", "d", "e", "v", "/", "s", "d">>, <<"x">>, <<" ">>, <<"$">>,
      <<"v", "i">> \o <<" ">>, <<"s", "s", "h">> \o <<" ">>, Openssl, KeepAlive,
      <<"p", "r", "i", "n", "t", "(">> }

\* the texts of at most n of these pieces
RECURSIVE StagePieces(_)
StagePieces(n) ==
    IF n = 0 THEN {<<>>}
    ELSE {a \o b : a \in StagePieces(n - 1), b \in StageFragments}

StageTexts == StagePieces(MaxFragments)

\* command.replace(old, new)
RECURSIVE ReplaceText(_, _, _)
ReplaceText(text, old, new) ==
    IF text = <<>> THEN <<>>
    ELSE IF StartsWith(text, old)
         THEN new \o ReplaceText(SubSeq(text, Len(old) + 1, Len(text)), old, new)
         ELSE <<Head(text)>> \o ReplaceText(Tail(text), old, new)

\* lines 2297-2312: command.strip() == 'session-keep-alive', the built-in
\* that answers at once whether or not its script exists
IsKeepAlive(command) == Strip(command) = KeepAlive

\* lines 2325-2327: command.strip().startswith(f"{editor} ")
IsEditorCommand(command) ==
    \E editor \in EditorTexts : StartsWith(Strip(command), editor \o <<" ">>)

\* lines 2414-2489: an openssl command is run through the wrapper of the
\* session when the wrapper is there and executable (wrapperOK):
\* command = f"bash {openssl_wrapper} {openssl_cmd}"
UseOpensslWrapper(command, wrapperOK) ==
    IF StartsWith(Strip(command), Openssl) /\ wrapperOK
    THEN <<"b", "a", "s", "h", " ">> \o OpensslWrapper \o <<" ">>
             \o SubSeq(Strip(command), Len(Openssl) + 1, Len(Strip(command)))
    ELSE command

\* lines 2534-2536: an apt or apt-get command is redirected to pkg
RedirectApt(command) ==
    IF StartsWith(Strip(command), Apt) \/ StartsWith(Strip(command), AptGet)
    THEN ReplaceText(ReplaceText(command, Apt, Pkg), AptGet, Pkg)
    ELSE command

\* lines 2558-2568: is_interactive
InteractiveText(command) ==
    /\ \E interactive_cmd \in InteractiveTexts : StartsWith(Strip(command), interactive_cmd)
    /\ ~StartsWith(Strip(command), <<"o", "p", "e", "n", "s", "s", "l", "-", "w", "r", "a", "p", "p", "e", "r">>)

\* the stages with the redirection to pkg made before the denylist
StagesRedirectingFirst(command0, wrapperOK) ==
    LET early == [python |-> FALSE, command |-> command0, final |-> <<>>,
                  interactive |-> FALSE, wrapper |-> wrapperOK]
        cleaned == CleanCommand(command0)
        python == IsPythonCode(cleaned)
        wrapped == IF python THEN WrapPython(cleaned) ELSE cleaned
        command == RedirectApt(UseOpensslWrapper(wrapped, wrapperOK))
        final == command
    IN IF IsKeepAlive(command0) THEN early @@ [kind |-> "builtin"]
       ELSE IF IsEditorCommand(command0) THEN early @@ [kind |-> "editor"]
       ELSE IF DenylistedText(command)
       THEN [python |-> python, command |-> command, kind |-> "forbidden",
             final |-> <<>>, interactive |-> FALSE, wrapper |-> wrapperOK]
       ELSE [python |-> python, command |-> command, kind |-> "accepted",
             final |-> final, interactive |-> InteractiveText(final),
             wrapper |-> wrapperOK]

\* execute_command from the built-in commands (line 2236) to the interactive
\* flagging (line 2568), ENABLE_SYSTEM_COMMANDS being set: command is the
\* text the denylist looks at, final the text that is flagged and run. No
\* text of the model is one the python-import rewrite (2538-2549) applies to.
Stages(command0, wrapperOK) ==
    LET early == [python |-> FALSE, command |-> command0, final |-> <<>>,
                  interactive |-> FALSE, wrapper |-> wrapperOK]
        cleaned == CleanCommand(command0)
        python == IsPythonCode(cleaned)
        wrapped == IF python THEN WrapPython(cleaned) ELSE cleaned
        command == UseOpensslWrapper(wrapped, wrapperOK)
        final == RedirectApt(command)
    IN IF IsKeepAlive(command0) THEN early @@ [kind |-> "builtin"]
       ELSE IF IsEditorCommand(command0) THEN early @@ [kind |-> "editor"]
       ELSE IF DenylistedText(command)
       THEN [python |-> python, command |-> command, kind |-> "forbidden",
             final |-> <<>>, interactive |-> FALSE, wrapper |-> wrapperOK]
       ELSE [python |-> python, command |-> command, kind |-> "accepted",
             final |-> final, interactive |-> InteractiveText(final),
             wrapper |-> wrapperOK]

\* a request with the command cmdText goes through the stages
RewriteCommand ==
    /\ cmdVerdict = NoVerdict
    /\ \E wrapperOK \in BOOLEAN : cmdVerdict' = Stages(cmdText, wrapperOK)
    /\ UNCHANGED <<cmdText, poolVars, pathVars>>
    /\ UNCHANGED <<now, tableVars, procVars, ev, startVars, slotVars, fileVars>>

StageInit ==
    /\ cmdText \in StageTexts
    /\ cmdVerdict = NoVerdict
    /\ now = 0
    /\ sessions = EmptyMap
    /\ user_sessions = EmptyMap
    /\ dirs = {}
    /\ saved = [sessions |-> EmptyMap, user_sessions |-> EmptyMap]
    /\ procs = EmptyMap
    /\ processes = EmptyMap
    /\ running_processes = EmptyMap
    /\ socket_processes = EmptyMap
    /\ nextSid = 1
    /\ nextPid = 1
    /\ ev = NoEv
    /\ started = TRUE
    /\ cleanup_timer = TRUE
    /\ reaper_save = NoSave
    /\ SlotIdle
    /\ FileIdle

StageNext == RewriteCommand


-----------------------------------------------------------------------------
(***************************************************************************)
(* The timer of cleanup_sessions of flask_server.py: each run starts the   *)
(* timer of the next as its last statement.                                *)
(***************************************************************************)

\* a run of cleanup_sessions in which log_activity raises for the expired
\* session sid (logs/session.log cannot be written): terminate_process has
\* been called for it, the record stays, and the function is left before
\* threading.Timer(60.0, cleanup_sessions).start()
FlaskSweepFails(sid) ==
    /\ LET k == FlaskTerminateProcess(procs, running_processes, sid)
       IN /\ procs' = Reap(k.procs)
          /\ running_processes' = k.table
    /\ ev' = [Event("sweep", 0, "error") EXCEPT !.failed = TRUE]
    /\ cleanup_timer' = FALSE
    /\ UNCHANGED <<started, reaper_save>>
    /\ UNCHANGED <<now, tableVars, socket_processes, nextPid>>
    /\ UNCHANGED <<poolVars, pathVars, wrapVars, slotVars, fileVars, processes>>

\* the pending timer runs cleanup_sessions; logOK is whether log_activity
\* can write its line. The session the loop over expired_sessions comes to
\* first is any of the expired ones.
FlaskCleanupTimer ==
    /\ cleanup_timer
    /\ \E logOK \in BOOLEAN :
          LET expired == {sid \in DOMAIN sessions :
                             now - sessions[sid].last_accessed > SESSION_TIMEOUT}
          IN IF expired = {} \/ logOK
             THEN FlaskCleanupSessions
             ELSE \E sid \in expired : FlaskSweepFails(sid)

\* the session table, the commands and the timer of the reaper
FlaskReaperNext ==
    \/ Tick
    \/ FlaskCreateSession(EngineScope)
    \/ FlaskSessionInfo(EngineScope)
    \/ FlaskExecuteCommand(EngineScope)
    \/ FlaskCleanupTimer
    \/ \E pid \in Pids : \/ FlaskCommunicateReturns(pid)
                         \/ FlaskCommunicateTimeout(pid)
                         \/ ProcessExits(pid)


-----------------------------------------------------------------------------
(***************************************************************************)
(* The cleanup thread of SessionManager step by step: the sweep under the  *)
(* session lock, then _save_sessions() without it, which first builds      *)
(* serializable_sessions and then dumps it together with user_sessions.    *)
(* The requests hold the lock for their whole step.                        *)
(***************************************************************************)

\* _cleanup_expired_sessions up to the end of `with self.session_lock'
ReaperSweeps ==
    /\ reaper_save.pc = "idle"
    /\ LET expired == ExpiredSessions(Table, now)
       IN /\ sessions' = DelAll(sessions, expired)
          /\ user_sessions' =
                 [u \in {v \in DOMAIN user_sessions :
                            ~(/\ user_sessions[v] \in expired
                              /\ sessions[user_sessions[v]].user_id = v)}
                    |-> user_sessions[u]]
          /\ dirs' = dirs \ expired
          /\ reaper_save' = IF expired # {} THEN [NoSave EXCEPT !.pc = "copy"]
                            ELSE NoSave
          /\ ev' = [Event("sweep", 0, "none") EXCEPT !.gone = expired]
    /\ UNCHANGED <<now, saved, nextSid, procVars, started, cleanup_timer>>
    /\ UNCHANGED <<poolVars, pathVars, wrapVars, slotVars, fileVars>>

\* _save_sessions, lines 257-265: the loop over self.sessions.items()
ReaperCopies ==
    /\ reaper_save.pc = "copy"
    /\ reaper_save' = [pc |-> "dump", sessions |-> sessions, seen |-> user_sessions]
    /\ ev' = Event("save", 0, "copy")
    /\ UNCHANGED <<now, tableVars, procVars, started, cleanup_timer>>
    /\ UNCHANGED <<poolVars, pathVars, wrapVars, slotVars, fileVars>>

\* _save_sessions, lines 267-272: json.dump of serializable_sessions and of
\* self.user_sessions as it is now
ReaperDumps ==
    /\ reaper_save.pc = "dump"
    /\ saved' = [sessions |-> reaper_save.sessions, user_sessions |-> user_sessions]
    /\ reaper_save' = NoSave
    /\ ev' = Event("save", 0, "dump")
    /\ UNCHANGED <<now, sessions, user_sessions, dirs, nextSid, procVars,
                   started, cleanup_timer>>
    /\ UNCHANGED <<poolVars, pathVars, wrapVars, slotVars, fileVars>>

\* the requests to the session manager and its cleanup thread
ManagerSaveNext ==
    \/ Tick
    \/ CreateSessionRoute(TableScope)
    \/ HandleJoinSession
    \/ EndSessionApi
    \/ ReaperSweeps
    \/ ReaperCopies
    \/ ReaperDumps


-----------------------------------------------------------------------------
(***************************************************************************)
(* Claims about the container pool                                         *)
(***************************************************************************)

\* C3 (as stated): for every user, any two calls of get_container_for_user
\* return the same (containerId, linuxUsername) pair, whatever happened to the
\* containers in between.
C3_SamePairAlways ==
    [][\A u \in Users :
          (resolved[u] # NoPair /\ resolved'[u] # NoPair) => resolved'[u] = resolved[u]]_vars

\* C3 (amended): a call of get_container_for_user(u) returns the pair the call
\* before it returned whenever the container of that pair still exists at the
\* call; the Linux username of u is the same in every successful call; and an
\* assignment of the user map is removed or changed only when docker no longer
\* knows its container.
C3_StableWhileContainerExists ==
    [][\A u \in Users :
          /\ (resolved[u] # NoPair /\ resolved[u].cid \in DOMAIN docker)
                => resolved'[u] = resolved[u]
          /\ (resolved[u] # NoPair /\ resolved'[u] # NoPair)
                => resolved'[u].username = resolved[u].username
          /\ (u \in DOMAIN user_map
               /\ (u \notin DOMAIN user_map' \/ user_map'[u] # user_map[u]))
                => user_map[u].cid \notin DOMAIN docker]_vars

\* C3 witness: a second call for a user has just returned the pair of the
\* first although that user's container has stopped in between (it still exists).
C3_Witness ==
    \E u \in Users : /\ repeated = u
                    /\ resolved[u] # NoPair
                    /\ resolved[u].cid \in DOMAIN docker
                    /\ docker[resolved[u].cid] = "exited"

\* C4: in multi-container mode the container list never holds more than
\* max_containers containers; with users_per_container = 2 and
\* max_containers = 2, once three distinct users are resolved (docker never
\* having failed) the pool holds exactly 2 containers and docker has created
\* exactly 2.
C4_AtMostMaxContainers ==
    multi_container_mode =>
        /\ Len(containers) <= max_containers
        /\ (/\ max_containers = 2 /\ users_per_container = 2
            /\ ~faulted
            /\ Cardinality(DOMAIN user_map) >= 3)
              => (Len(containers) = 2 /\ nextCid = 3)

\* C4 witness: the scenario itself, three users in a pool of 2 x 2
C4_Witness ==
    /\ multi_container_mode
    /\ max_containers = 2 /\ users_per_container = 2
    /\ ~faulted
    /\ Cardinality(DOMAIN user_map) = 3
    /\ Len(containers) = 2


-----------------------------------------------------------------------------
(***************************************************************************)
(* Claims about path containment                                           *)
(***************************************************************************)

\* The resolved target lies inside the home directory: it is the home
\* directory or a path below it
InsideHome(target, home) ==
    \/ target = home
    \/ StartsWith(target, home \o <<"/">>)

\* C7: a file operation is accepted only if normalize(join(homeDir, p)) lies
\* inside homeDir; a p that resolves to a sibling directory whose name starts
\* with homeDir's name is rejected.
C7_AcceptedOnlyInsideHome ==
    (pathCheck # NoCheck /\ pathCheck.accepted) => InsideHome(pathCheck.target, pathHome)

-----------------------------------------------------------------------------
(***************************************************************************)
(* Claims about the session store and the execution engines                *)
(***************************************************************************)

\* C1: get(s.id) returns a session if and only if now - s.lastAccess is
\* below the session timeout; a get that returns a session has set the
\* lastAccess of the returned session to now; and this holds on every lookup
\* path, so that a session returned for an unknown id (the redirect to
\* another session of the user) is itself not expired.
C1_GetReturnsIffFresh ==
    [][ev'.op = "get" =>
          /\ ev'.sid \in DOMAIN sessions
                => ((ev'.ret # 0)
                      <=> (now - sessions[ev'.sid].last_accessed < SESSION_TIMEOUT))
          /\ ev'.ret # 0
                => /\ ev'.ret \in DOMAIN sessions'
                   /\ sessions'[ev'.ret].last_accessed = now'
                   /\ now - sessions[ev'.ret].last_accessed < SESSION_TIMEOUT]_vars

\* C2: starting a command terminates the process the session has in flight,
\* so that no two live processes started by the engine share a session id.
C2_OneLiveProcessPerSession ==
    \A p, q \in DOMAIN procs :
        (Live(p) /\ Live(q) /\ procs[p].sid = procs[q].sid) => p = q

\* the running-process tables of the engines
ProcessTables == <<processes, running_processes, socket_processes>>

\* the session has pid as its entry in a running-process table
HasEntry(sid, pid) ==
    \E i \in 1..3 : sid \in DOMAIN ProcessTables[i] /\ ProcessTables[i][sid] = pid

\* the session has an entry in a running-process table
HasAnyEntry(sid) == \E i \in 1..3 : sid \in DOMAIN ProcessTables[i]

\* the live processes the engines started for the session
LiveProcessesOf(sid) == {p \in DOMAIN procs : Live(p) /\ procs[p].sid = sid}

\* C6: when a command exceeds the command timeout, the engine answers with a
\* timeout result and does not kill the process: the process is still alive
\* and is still the entry of its session in the running-process table.
C6_TimeoutLeavesProcessRunning ==
    (ev.op = "exec" /\ ev.kind = "timeout")
        => (Live(ev.pid) /\ HasEntry(ev.sid, ev.pid))

\* C8: a command request whose session id is absent from the session table or
\* expired never fails with an invalid-session error; a brand-new session is
\* created and the answer to the request carries the new session id.
C8_AbsentSessionIsRenewed ==
    (ev.op \in {"exec", "stream"} /\ ev.flag /\ ev.kind # "waiting")
        => /\ ev.kind # "invalid_session"
           /\ ev.ret # 0
           /\ ev.ret # ev.sid
           /\ ev.ret \in DOMAIN sessions

\* C9: after every reaper sweep no session whose age exceeds the session
\* timeout is left in the session table, the process of every session the
\* sweep removed has been terminated and removed from the running-process
\* table, and the persisted table equals the table in memory.
C9_SweepLeavesNothingBehind ==
    ev.op = "sweep"
        => /\ \A sid \in DOMAIN sessions : ~IsExpired(sessions[sid], now)
           /\ \A sid \in ev.gone : LiveProcessesOf(sid) = {} /\ ~HasAnyEntry(sid)
           /\ saved = [sessions |-> sessions, user_sessions |-> user_sessions]

\* C5: on every execution path a command that contains a denylisted pattern
\* is answered with Forbidden before anything reaches the backend: no process
\* is spawned and the running-process tables stay as they are.
C5_DenylistedIsRefused ==
    [][(ev'.op \in {"exec", "stream"} /\ Denylisted(ev'.cmd))
          => /\ ev'.kind = "forbidden"
             /\ procs' = procs
             /\ ProcessTables' = ProcessTables]_vars

\* C10: end(sessionId, preserveData) answers true iff the session was in the
\* table; afterwards the session is not in the table (so that get returns
\* nil and a second end answers false); the directory of the session is
\* removed iff preserveData is false; no other session's record or directory
\* changes.
C10_EndRemovesSession ==
    [][ev'.op = "end" =>
          /\ (ev'.kind = "ok") <=> (ev'.sid \in DOMAIN sessions)
          /\ ev'.sid \notin DOMAIN sessions'
          /\ (ev'.sid \in DOMAIN sessions /\ ev'.sid \in dirs)
                => ((ev'.sid \notin dirs') <=> ~ev'.flag)
          /\ \A o \in (DOMAIN sessions) \ {ev'.sid} :
                o \in DOMAIN sessions' /\ sessions'[o] = sessions[o]
          /\ dirs \ {ev'.sid} = dirs' \ {ev'.sid}]_vars

-----------------------------------------------------------------------------
(***************************************************************************)
(* Claims about persistence, start-up and session creation                 *)
(***************************************************************************)

\* C11: after every operation that changes the session table (create, end,
\* the eviction of an expired session by get, a reaper sweep), sessions.json
\* holds the table as it is in memory: the same session ids and the same
\* pointers from user id to session id.
C11_PersistedMatchesTable ==
    [][(/\ ev'.op \in {"create", "end", "get", "sweep"}
        /\ \/ DOMAIN sessions' # DOMAIN sessions
           \/ user_sessions' # user_sessions)
          => /\ DOMAIN saved'.sessions = DOMAIN sessions'
             /\ saved'.user_sessions = user_sessions']_vars

C13_CreateAllocatesFreshId ==
    [][(ev'.op = "create" /\ ev'.kind = "ok")
          => /\ ev'.ret \notin DOMAIN sessions
             /\ \A sid \in DOMAIN sessions :
                   sid \in DOMAIN sessions' /\ sessions'[sid] = sessions[sid]]_vars

\* C14: when the backend initialisation of a create fails (directory
\* creation or environment setup), create answers an error and the session
\* table, the user pointer table and the persisted table are unchanged.
C14_FailedCreateRecordsNothing ==
    [][(ev'.op = "create" /\ ev'.failed)
          => /\ ev'.kind = "error"
             /\ sessions' = sessions
             /\ user_sessions' = user_sessions
             /\ saved' = saved]_vars

-----------------------------------------------------------------------------
(***************************************************************************)
(* Claims about failures of a command and about its output stream          *)
(***************************************************************************)

\* C17: whenever an exception is caught while a command executes
\* (synchronous or streaming), the caller gets a structured failure result
\* and, when it is delivered, the table of running processes of the engine
\* has no entry for the session.
C17_CaughtExceptionClearsEntry ==
    (ev.op \in {"exec", "stream"} /\ ev.failed)
        => /\ ev.kind = "exception"
           /\ ev.sid \notin DOMAIN processes
           /\ ev.op = "exec" => ev.sid \notin DOMAIN running_processes
           /\ ev.op = "stream" => ev.sid \notin DOMAIN socket_processes

\* C18: a streaming command delivers output events and then exactly one
\* completion event with the exit code, nothing after it; the completion
\* event is delivered once the process has ended, also when streaming
\* failed. The thread that streams a command sends its events in this
\* order and nobody sends any for it afterwards, so the claim is that the
\* step in which the thread ends is the delivery of the completion event.
C18_StreamEndsWithCompletion ==
    [][\A pid \in DOMAIN procs :
          (procs[pid].waiter = "stream" /\ procs'[pid].waiter # "stream")
              => (ev'.op = "stream" /\ ev'.kind = "complete" /\ ev'.pid = pid)]_vars

\* C19: a command that contains `rm -rf /' is refused as Forbidden whether
\* it goes to the denylist as submitted or is taken for interpreter source
\* and wrapped as python3 -c "..." first: the wrapping never makes a
\* denylisted command an accepted one.
C19_WrappingKeepsDenylisted ==
    (cmdVerdict # NoVerdict /\ ContainsText(cmdText, RmRf))
        => cmdVerdict.kind = "forbidden"

\* a command with `rm -rf /' and a double quote was wrapped and refused
C19_Witness ==
    /\ cmdVerdict.python
    /\ cmdVerdict.kind = "forbidden"
    /\ ContainsText(cmdText, RmRf)
    /\ ContainsText(cmdText, <<"\"">>)

-----------------------------------------------------------------------------
(***************************************************************************)
(* Claims about failures of the container allocator                        *)
(***************************************************************************)

\* C20: when the creation of a container fails, the allocator returns a
\* container of the pool's list, one that exists, if the list is not empty,
\* and raises otherwise; no id is added to the list, and no assignment is
\* recorded for a container that was not created: with the fallback the
\* user is assigned to the returned container, with the error to none.
C20_FailedCreationRecordsNothing ==
    [][creation'.kind # "none" =>
          LET u == creation'.user
          IN /\ Range(containers') \subseteq Range(containers)
             /\ DOMAIN docker' = DOMAIN docker
             /\ (creation'.kind = "fallback") <=> (containers' # <<>>)
             /\ creation'.kind = "fallback"
                   => /\ resolved'[u].cid \in Range(containers')
                      /\ resolved'[u].cid \in DOMAIN docker'
                      /\ user_map'[u] = resolved'[u]
             /\ creation'.kind = "raised"
                   => /\ resolved'[u] = NoPair
                      /\ u \notin DOMAIN user_map'
             /\ \A v \in (DOMAIN user_map') \ {u} :
                   v \in DOMAIN user_map /\ user_map'[v] = user_map[v]]_vars

\* a creation failed with the pool holding a container: the fallback
C20_Witness ==
    /\ creation.kind = "fallback"
    /\ containers # <<>>
    /\ creation.user \in DOMAIN user_map

-----------------------------------------------------------------------------
(***************************************************************************)
(* Claims about the session pool                                           *)
(***************************************************************************)

\* C15: create never hands out a pool slot older than maxPoolAge: when a
\* session is taken from the session pool, now - slot.created <= maxPoolAge.
C15_NoOldSlotHandedOut ==
    [][(ev'.op = "create" /\ session_pool # <<>>)
          => pool_clock - Head(session_pool).created <= MAX_POOL_AGE]_vars

\* C16: every session handed out from the session pool is fully
\* initialised: its environment setup has completed when create takes it.
C16_HandedOutSlotIsSetUp ==
    [][(ev'.op = "create" /\ session_pool # <<>>)
          => Head(session_pool).session_id \in setup_done]_vars

-----------------------------------------------------------------------------
(***************************************************************************)
(* Claims about failures of the backend and about the session table        *)
(***************************************************************************)

\* C21: a backend execution error (the container pool answers with an
\* error, the process cannot be started, or waiting for it raises) leaves
\* the session table as it was except for the refresh of last_accessed (and
\* the session a renewal made): every session that was valid is still in
\* the table, with the same owner, and a following get of it returns it.
C21_BackendErrorKeepsSessions ==
    [][(ev'.op \in {"exec", "stream"} /\ ev'.kind \in {"error", "exception"})
          => /\ \A s \in DOMAIN sessions :
                    ~IsExpired(sessions[s], now)
                       => /\ s \in DOMAIN sessions'
                          /\ sessions'[s].user_id = sessions[s].user_id
                          /\ sessions'[s].last_accessed
                                \in {sessions[s].last_accessed, now}
                          /\ FlaskGetSession(Table', s, 0, now').session = s
             /\ \A s \in DOMAIN sessions' :
                    s \notin DOMAIN sessions => (ev'.flag /\ ev'.ret = s)]_vars

\* the container pool or the start of the process failed for a command of a
\* session that is in the table, without a renewal
C21_Witness ==
    /\ ev.op = "exec"
    /\ ev.kind = "error"
    /\ ev.pid = 0
    /\ ~ev.flag
    /\ ev.sid \in DOMAIN sessions
    /\ sessions[ev.sid].last_accessed = now
    /\ now > 0

-----------------------------------------------------------------------------
(***************************************************************************)
(* Claims about the health check and the choice of a container             *)
(***************************************************************************)

\* C22: every container that get_container_for_user returns, also to a user
\* who is already assigned, was found running or was restarted by the
\* health check of that call: it is running when the call returns, and it
\* is in the container list of the pool.
C22_ReturnedContainerIsRunning ==
    [][\A u \in Users :
          ((resolved'[u] # resolved[u] \/ repeated' = u) /\ resolved'[u] # NoPair)
             => /\ resolved'[u].cid \in DOMAIN docker'
                /\ docker'[resolved'[u].cid] = "running"
                /\ resolved'[u].cid \in Range(containers')]_vars

-----------------------------------------------------------------------------
(***************************************************************************)
(* Claims about the file commands                                          *)
(***************************************************************************)

\* C23: after  echo "X" > f  a following  cat f  returns exactly X, and
\* after  echo "Y" >> f  it returns the previous content of f followed by Y,
\* whether X is quoted or not and also when X has > characters inside the
\* quotes.
C23_CatReturnsWhatEchoWrote ==
    fileEv.op = "echo"
       => LET r == HandleFileOperations(files, CatWord \o fileEv.path, pathHome)
          IN /\ r.kind = "output"
             /\ r.output = (IF fileEv.append THEN fileEv.before ELSE <<>>)
                              \o fileEv.content

\* C24: the last_accessed of a session never decreases while its id is in
\* the session table, whatever create, get, touch, command start and sweep
\* steps are taken.
C24_LastAccessNeverDecreases ==
    [][\A sid \in (DOMAIN sessions) \cap (DOMAIN sessions') :
          sessions'[sid].last_accessed >= sessions[sid].last_accessed]_vars

\* a session made earlier is looked up at the last reading of the clock and
\* its last_accessed is that reading
C24_Witness ==
    /\ ev.op = "stream"
    /\ ev.kind = "started"
    /\ ~ev.flag
    /\ now = MaxTime
    /\ ev.sid \in DOMAIN sessions
    /\ sessions[ev.sid].last_accessed = now

\* C25: the expiresIn that create returns is the session timeout in
\* milliseconds, the timeout in seconds times 1000, whichever server
\* creates the session.
C25_ExpiresInIsMilliseconds ==
    (ev.op = "create" /\ ev.kind = "ok") => ev.expires = SessionTimeoutSeconds * 1000

\* the containers of the pool that are running
RunningContainers(conts, dock) ==
    {c \in Range(conts) : c \in DOMAIN dock /\ dock[c] = "running"}

\* the users assigned to container c, user u left out
AssignedOthers(umap, c, u) ==
    Cardinality({v \in (DOMAIN umap) \ {u} : umap[v].cid = c})

\* C26: in multi-container mode a user who is newly assigned to a container
\* that existed before gets a container with the least number of assigned
\* users among the running containers of the pool; a container is created
\* only when every running container has usersPerContainer users or more and
\* the pool has fewer than maxContainers; and with the pool full and every
\* container at capacity the allocator still returns a container.
C26_LeastLoadedOrNew ==
    [][\A u \in MultiUsers :
          (/\ multi_container_mode
           /\ resolved'[u] # resolved[u]
           /\ resolved'[u] # NoPair)
             => LET c == resolved'[u].cid
                    running == RunningContainers(containers', docker')
                IN /\ c \in DOMAIN docker
                      => \A d \in running :
                            AssignedOthers(user_map', c, u) <= AssignedOthers(user_map', d, u)
                   /\ c \notin DOMAIN docker
                      => /\ Len(containers') <= max_containers
                         /\ \A d \in running \ {c} :
                               AssignedOthers(user_map', d, u) >= users_per_container]_vars

\* C27: in single-container mode a user who is given an assignment gets the
\* container of the pool that is present and running, if there is one, and
\* docker is asked for a new container only when the pool has none; so the
\* pool never has two containers, and all users whose container is present
\* and running have the same container.
C27_SingleContainerWhileHealthy ==
    [][~multi_container_mode
          => LET healthy == RunningContainers(containers, docker)
             IN /\ \A u \in Users :
                      (/\ resolved'[u] # NoPair
                       /\ (u \notin DOMAIN user_map \/ user_map'[u] # user_map[u]))
                         => (healthy # {} => resolved'[u].cid \in healthy)
                /\ (DOMAIN docker' \ DOMAIN docker # {} \/ creation'.kind # "none")
                      => healthy = {}
                /\ Len(containers') <= 1
                /\ \A u, v \in DOMAIN user_map' :
                      (/\ user_map'[u].cid \in RunningContainers(containers', docker')
                       /\ user_map'[v].cid \in RunningContainers(containers', docker'))
                         => user_map'[u].cid = user_map'[v].cid]_vars

\* in single-container mode a second container has replaced the first and
\* two users have it
C27_Witness ==
    /\ ~multi_container_mode
    /\ nextCid > 2
    /\ containers # <<>>
    /\ \E u, v \in DOMAIN user_map :
          /\ u # v
          /\ user_map[u].cid = containers[1]
          /\ user_map[v].cid = containers[1]
          /\ containers[1] \in RunningContainers(containers, docker)

-----------------------------------------------------------------------------
(***************************************************************************)
(* Claims about the stages of a command in flask_server.py                 *)
(***************************************************************************)

\* C28: a command flagged interactive that reaches the helper has one of
\* two outcomes: the helper gives the FIFO paths, and then the answer
\* carries them, no process is started and the session has no entry in
\* running_processes; or the helper fails or times out, and then the command
\* goes to normal execution (a process is started, or its start fails).
\* Never both.
C28_FifosOrInline ==
    [][(/\ ev'.op = "exec"
        /\ IsInteractive(ev'.cmd)
        /\ ev'.helper # "none")
          => LET session_id == IF ev'.flag THEN nextSid ELSE ev'.sid
             IN IF ev'.helper = "fifos"
                THEN /\ ev'.kind = "interactive"
                     /\ nextPid' = nextPid
                     /\ DOMAIN procs' \subseteq DOMAIN procs
                     /\ session_id \notin DOMAIN running_processes'
                ELSE /\ ev'.kind \in {"waiting", "error"}
                     /\ ev'.kind = "waiting"
                           => /\ nextPid' = nextPid + 1
                              /\ running_processes'[session_id] = nextPid]_vars

\* the helper gave the FIFO paths for a command of a session that had a
\* command running
C28_Witness ==
    /\ ev.op = "exec"
    /\ ev.kind = "interactive"
    /\ ev.helper = "fifos"
    /\ ~ev.flag
    /\ ev.sid \in DOMAIN sessions
    /\ nextPid > 1

\* C29: a get with an unknown session id and identity data naming user u
\* returns a session only if it is owned by u, is in the session table and
\* has not expired; identity data of a user without a recorded pointer
\* yields no session
C29_RedirectOnlyToLiveOwnSession ==
    (ev.op = "get" /\ ~ev.flag /\ ev.hdr # 0)
        => /\ ev.ret # 0 => /\ ev.ret \in DOMAIN sessions
                            /\ sessions[ev.ret].user_id = ev.hdr
                            /\ now - sessions[ev.ret].last_accessed <= SESSION_TIMEOUT
           /\ ev.hdr \notin DOMAIN user_sessions => ev.ret = 0


\* the text the denylist of the stages looks at, computed stage by stage
\* from the text of the request
TextAtDenylist ==
    LET cleaned == CleanCommand(cmdText)
    IN UseOpensslWrapper(IF IsPythonCode(cleaned) THEN WrapPython(cleaned) ELSE cleaned,
                         cmdVerdict.wrapper)

C31_CompletionRemovesOnlyOwnEntry ==
    [][\A pid \in Pids :
          (/\ pid \in DOMAIN procs
           /\ procs[pid].waiter # "none"
           /\ ev'.pid = pid
           /\ ev'.op \in {"exec", "stream"}
           /\ ev'.kind \in {"output", "error", "complete"})
              => \A sid \in DOMAIN running_processes :
                    running_processes[sid] # pid
                        => /\ sid \in DOMAIN running_processes'
                           /\ running_processes'[sid] = running_processes[sid]]_vars


\* C32: every key of the running-process table is the id of a session of
\* the session table: a session that is removed (delete, eviction by get,
\* reaper) loses its running-process entry in the same step
C32_TrackedProcessesBelongToSessions ==
    DOMAIN running_processes \subseteq DOMAIN sessions


\* the session is in the table and untouched for longer than the timeout
IsExpiredNow(sid) ==
    /\ sid \in DOMAIN sessions
    /\ now - sessions[sid].last_accessed > SESSION_TIMEOUT

\* C33: the reaper never stops: after every sweep, one in which an
\* exception is raised included, the next sweep is scheduled, so that under
\* fairness every session left untouched past the session timeout is
\* eventually removed from the session table
C33_ExpiredSessionsEventuallyReaped ==
    /\ [](cleanup_timer)
    /\ \A sid \in FlaskIds(EngineScope) : IsExpiredNow(sid) ~> ~IsExpiredNow(sid)


\* C34: in every reachable state each entry of the user pointer table names
\* a session that is in the session table and is owned by that user
C34_PointersNameOwnLiveSessions ==
    \A u \in DOMAIN user_sessions :
        /\ user_sessions[u] \in DOMAIN sessions
        /\ sessions[user_sessions[u]].user_id = u


\* C35: every write of the persisted session table is a consistent
\* snapshot: what is written equals the in-memory table at a single
\* instant, that of the write or, for the cleanup thread, that at which it
\* read the sessions
C35_PersistedIsSnapshot ==
    [][saved' # saved
          => \/ saved' = [sessions |-> sessions', user_sessions |-> user_sessions']
             \/ /\ reaper_save.pc = "dump"
                /\ saved' = [sessions |-> reaper_save.sessions,
                             user_sessions |-> reaper_save.seen]]_vars


\* C36: the pool filler stays a single periodic task: in every reachable
\* state at most one timer of the pool refill is pending, whatever the
\* number of create calls that start an immediate refill
C36_OneRefillTimer == pool_timers <= 1


\* C37: the session pool never holds more than SESSION_POOL_SIZE slots, and
\* each slot is handed to at most one create call: a create call that finds
\* a slot gets the first one, which leaves the pool and has been handed to
\* no call before, so that no two calls get the same pooled session id
C37_PoolBoundedSlotsHandedOnce ==
    /\ [](/\ Len(session_pool) <= MaxPoolSlots
          /\ \A i, j \in DOMAIN session_pool :
                session_pool[i].session_id = session_pool[j].session_id => i = j
          /\ \A i \in DOMAIN session_pool :
                session_pool[i].session_id \notin DOMAIN sessions)
    /\ [][(ev'.op = "create" /\ session_pool # <<>>)
             => /\ ev'.ret = Head(session_pool).session_id
                /\ ~ev'.flag
                /\ \A i \in DOMAIN session_pool' :
                      session_pool'[i].session_id # ev'.ret]_vars

\* a second create call has been served from the pool
C37_Witness ==
    /\ ev.op = "create"
    /\ ev.ret > 0
    /\ Cardinality({sid \in DOMAIN sessions : sid > 0}) >= 2


\* C38: two distinct users assigned to the same container never have the same
\* Linux username, nor the same UID.
C38_DistinctIdentitiesInContainer ==
    \A u \in DOMAIN user_map : \A v \in DOMAIN user_map :
        (u # v /\ user_map[u].cid = user_map[v].cid)
            => /\ user_map[u].username # user_map[v].username
               /\ Userid(u) # Userid(v)

\* the user the step assigned, or gave a pair to
Assigned(u) ==
    \/ u \in DOMAIN user_map' /\ u \notin DOMAIN user_map
    \/ u \in DOMAIN user_map' /\ u \in DOMAIN user_map /\ user_map'[u] # user_map[u]
    \/ resolved'[u] # NoPair /\ resolved'[u] # resolved[u]

\* C39: a step that records an assignment for a user, or returns a new pair
\* for the user, leaves the account of that pair existing in the container.
C39_AssignedOnlyIfUserCreated ==
    [][\A u \in HashUsers :
          Assigned(u)
            => \E a \in linux_users' :
                  /\ a.cid = user_map'[u].cid
                  /\ a.username = user_map'[u].username]_vars

\* C40: every container id in the user map is in the pool's container list,
\* and so is every container id a call of get_container_for_user returns.
C40_MappedContainersAreListed ==
    /\ [](\A u \in DOMAIN user_map : user_map[u].cid \in Range(containers))
    /\ [][\A u \in Users :
            (resolved'[u] # NoPair /\ (resolved'[u] # resolved[u] \/ repeated' = u))
                => resolved'[u].cid \in Range(containers')]_vars

-----------------------------------------------------------------------------
(* Specifications: each subsystem runs with the others idle *)

PoolIdle ==
    /\ containers = <<>>
    /\ user_map = [u \in {} |-> NoPair]
    /\ docker = [c \in {} |-> "running"]
    /\ nextCid = 1
    /\ multi_container_mode = FALSE
    /\ max_containers = 1
    /\ users_per_container = 1
    /\ resolved = [u \in Users |-> NoPair]
    /\ repeated = 0
    /\ faulted = FALSE
    /\ creation = NoFailure
    /\ linux_users = {}

Init == PoolInit /\ PathIdle /\ StoreInit

InitPath == PoolIdle /\ PathInit /\ StoreInit

SpecPool == Init /\ [][PoolNext]_vars

InitPoolMulti == PoolInitMulti /\ PathIdle /\ StoreInit

SpecPoolMulti == InitPoolMulti /\ [][PoolMultiNext]_vars

SpecPath == InitPath /\ [][PathNext]_vars

InitStore == PoolIdle /\ PathIdle /\ StoreInit

SpecStore == InitStore /\ [][StoreNext]_vars

SpecManager == InitStore /\ [][ManagerNext]_vars

InitFlask == PoolIdle /\ PathIdle /\ FlaskInit

SpecFlask == InitFlask /\ [][FlaskNext]_vars

SpecFlaskTable == InitFlask /\ [][FlaskTableNext]_vars

SpecFlaskInteractive == InitFlask /\ [][FlaskInteractiveNext]_vars

SpecBoot == InitStore /\ [][BootNext]_vars


InitWrap == PoolIdle /\ PathIdle /\ WrapInit

SpecWrap == InitWrap /\ [][WrapNext]_vars


InitSlot == PoolIdle /\ PathIdle /\ SlotInit

SpecFlaskPool == InitSlot /\ [][SlotNext]_vars


InitFile == PoolIdle /\ PathIdle /\ FileInit

SpecFile == InitFile /\ [][FileNext]_vars


InitStage == PoolIdle /\ PathIdle /\ StageInit

SpecStages == InitStage /\ [][StageNext]_vars


\* the timer thread runs cleanup_sessions when its timer is pending
SpecFlaskReaper == InitFlask /\ [][FlaskReaperNext]_vars /\ WF_vars(FlaskCleanupTimer)


SpecManagerSave == InitStore /\ [][ManagerSaveNext]_vars


InitPoolHash == PoolInitHash /\ PathIdle /\ StoreInit

SpecPoolHash == InitPoolHash /\ [][PoolHashNext]_vars


=============================================================================
